---- MODULE Spec2Model ----
(***************************************************************************)
(* Marzipan: a Redcode (CoreWar) emulator.  This module models the generic *)
(* emulator of marzipan-core: the core memory, the per-warrior process     *)
(* queues, the PSPACE store, operand evaluation, the 19 opcode handlers    *)
(* and the EmulatorCore API (step, run, write_core, reset_core, ...).      *)
(***************************************************************************)
EXTENDS Integers, Sequences, FiniteSets, TLC

\* ------------------------------------------------------------------------
\* Emulator settings (arguments of Emulator::new) and exploration bounds
\* ------------------------------------------------------------------------
CoreSize == 3

PspaceSize == 2

Warriors == 2

Processes == 2

\* largest `cycles` argument given to run
MaxCycles == 2

\* number of state-changing API calls explored from a fresh emulator
MaxSetup == 2

\* bits of the address type CoreAddr (32 in the source)
AddrBits == 4

CoreAddr_MAX == 2 ^ AddrBits - 1

\* the 64-bit types of the intermediate results have twice the bits of
\* CoreAddr
i64_MAX == 2 ^ (2 * AddrBits - 1) - 1

u64_MAX == 2 ^ (2 * AddrBits) - 1

\* ------------------------------------------------------------------------
\* redcode: instruction model
\* ------------------------------------------------------------------------
Opcode ==
  << "Dat", "Mov", "Add", "Sub", "Mul", "Div", "Mod", "Jmp", "Jmz", "Jmn",
     "Djn", "Spl", "Slt", "Cmp", "Seq", "Sne", "Nop", "Ldp", "Stp" >>

Modifier == << "A", "B", "AB", "BA", "F", "X", "I" >>

AddrMode ==
  << "Immediate", "Direct", "IndirectA", "IndirectB",
     "PredecA", "PredecB", "PostincA", "PostincB" >>

\* enum discriminant (ToPrimitive) and its partial inverse (FromPrimitive);
\* an Option is a sequence of length 0 (None) or 1 (Some)
to_u8(enum, v) == (CHOOSE i \in 1..Len(enum) : enum[i] = v) - 1

from_u8(enum, n) == IF n < Len(enum) THEN << enum[n + 1] >> ELSE << >>

Instruction(op, m, am, bm) ==
  [opcode |-> op, modifier |-> m, a_addr_mode |-> am, b_addr_mode |-> bm]

CompleteInstruction(i, a, b) == [instr |-> i, a_field |-> a, b_field |-> b]

\* impl Default for Instruction: Dat.F #, #  (fields default to 0)
DefaultInstruction == Instruction("Dat", "F", "Immediate", "Immediate")

AllInstructions ==
  { Instruction(Opcode[o], Modifier[m], AddrMode[x], AddrMode[y]) :
      o \in 1..Len(Opcode), m \in 1..Len(Modifier),
      x \in 1..Len(AddrMode), y \in 1..Len(AddrMode) }

\* ------------------------------------------------------------------------
\* bytecode codec: the four enum discriminants as big-endian bytes of a u32
\* ------------------------------------------------------------------------
encode(instr) ==
    to_u8(Opcode, instr.opcode) * 16777216
  + to_u8(Modifier, instr.modifier) * 65536
  + to_u8(AddrMode, instr.a_addr_mode) * 256
  + to_u8(AddrMode, instr.b_addr_mode)

\* decode with the two addressing-mode bytes taken in the other order
decode_swapped(bytecode) ==
  LET op == from_u8(Opcode, bytecode \div 16777216)
      md == from_u8(Modifier, (bytecode \div 65536) % 256)
      am == from_u8(AddrMode, bytecode % 256)
      bm == from_u8(AddrMode, (bytecode \div 256) % 256)
  IN  IF op = << >> \/ md = << >> \/ am = << >> \/ bm = << >>
      THEN << >>
      ELSE << Instruction(op[1], md[1], am[1], bm[1]) >>

decode(bytecode) ==
  LET op == from_u8(Opcode, bytecode \div 16777216)
      md == from_u8(Modifier, (bytecode \div 65536) % 256)
      am == from_u8(AddrMode, (bytecode \div 256) % 256)
      bm == from_u8(AddrMode, bytecode % 256)
  IN  IF op = << >> \/ md = << >> \/ am = << >> \/ bm = << >>
      THEN << >>
      ELSE << Instruction(op[1], md[1], am[1], bm[1]) >>

\* ------------------------------------------------------------------------
\* modular arithmetic kernel
\* ------------------------------------------------------------------------
RECURSIVE NormalizeOffset(_, _)
\* the `while res < 0` loop of offset
NormalizeOffset(res, size) ==
  IF res < 0 THEN NormalizeOffset(res + size, size) ELSE res

\* initial + offset modulo core size (the core size is positive here)
offset(initial, off, size) == (NormalizeOffset(off, size) + initial) % size

\* increment without the wrap at the end of the core
increment_nowrap(val, size) == val + 1

increment(val, size) == offset(val, 1, size)

decrement(val, size) == offset(val, -1, size)

\* i64::checked_add with results of the width of CoreAddr only
checked_add_narrow(x, y) ==
  IF x + y > CoreAddr_MAX \/ x + y < 0 - CoreAddr_MAX - 1 THEN << >>
  ELSE << x + y >>

\* i64::checked_add: << >> on overflow
checked_add(x, y) ==
  IF x + y > i64_MAX \/ x + y < 0 - i64_MAX - 1 THEN << >> ELSE << x + y >>

RECURSIVE NormalizeChecked(_, _)
\* the `while res < 0` loop of offset with its checked addition
NormalizeChecked(res, size) ==
  IF res >= 0 THEN << res >>
  ELSE IF checked_add(res, size) = << >> THEN << >>
  ELSE NormalizeChecked(checked_add(res, size)[1], size)

\* offset with every check it makes, for a positive size: << value >>, or
\* << >> for the InternalError of an overflow or of a value that does not
\* fit CoreAddr
offset_checked(initial, off, size) ==
  LET res == NormalizeChecked(off, size)
      sum == IF res = << >> THEN << >> ELSE checked_add(res[1], initial)
  IN  IF sum = << >> THEN << >>
      ELSE IF sum[1] % size > CoreAddr_MAX THEN << >>
      ELSE << sum[1] % size >>

add(lhs, rhs, size) == offset(lhs, rhs, size)

validate(val, size) == val < size

\* ------------------------------------------------------------------------
\* process queue set
\* ------------------------------------------------------------------------
WarriorIds == 0..(Warriors - 1)

ProcessQueueSet_new == [w \in WarriorIds |-> << >>]

\* push_back without the max_processes test
push_back_uncapped(pq, value, warrior_id) ==
  IF warrior_id \in DOMAIN pq
  THEN [pq EXCEPT ![warrior_id] = Append(@, value)]
  ELSE pq

push_back(pq, value, warrior_id) ==
  IF Len(pq[warrior_id]) < Processes
  THEN [pq EXCEPT ![warrior_id] = Append(@, value)]
  ELSE pq

RECURSIVE AscendingFrom(_, _)
\* the ids w >= from with a non-empty queue, in ascending order
AscendingFrom(pq, from) ==
  IF from >= Warriors THEN << >>
  ELSE IF pq[from] # << >> THEN << from >> \o AscendingFrom(pq, from + 1)
  ELSE AscendingFrom(pq, from + 1)

active_warriors(pq) == AscendingFrom(pq, 0)

\* ------------------------------------------------------------------------
\* PSPACE store: three maps, modelled as functions on the keys present
\* ------------------------------------------------------------------------
PSpace_new ==
  [warrior_to_pin |-> << >>, zero_index_values |-> << >>, pin_to_pspace |-> << >>]

\* PSpace_read with index 0 of a warrior that has no PSPACE reading as 0
PSpace_read_zero_default(ps, location, warrior_id) ==
  IF location = 0
  THEN IF warrior_id \in DOMAIN ps.zero_index_values
       THEN << ps.zero_index_values[warrior_id] >> ELSE << 0 >>
  ELSE IF /\ warrior_id \in DOMAIN ps.warrior_to_pin
          /\ ps.warrior_to_pin[warrior_id] \in DOMAIN ps.pin_to_pspace
          /\ location < PspaceSize
       THEN << ps.pin_to_pspace[ps.warrior_to_pin[warrior_id]][location] >>
       ELSE << >>

PSpace_read(ps, location, warrior_id) ==
  IF location = 0
  THEN IF warrior_id \in DOMAIN ps.zero_index_values
       THEN << ps.zero_index_values[warrior_id] >> ELSE << >>
  ELSE IF /\ warrior_id \in DOMAIN ps.warrior_to_pin
          /\ ps.warrior_to_pin[warrior_id] \in DOMAIN ps.pin_to_pspace
          /\ location < PspaceSize
       THEN << ps.pin_to_pspace[ps.warrior_to_pin[warrior_id]][location] >>
       ELSE << >>

\* PSpace_write with the value at index 0 kept per pin: every warrior on the
\* writer's pin gets it
PSpace_write_pin(ps, location, value, warrior_id) ==
  IF PSpace_read(ps, location, warrior_id) = << >> THEN << >>
  ELSE IF location = 0
  THEN << [ps EXCEPT !.zero_index_values =
             [v \in DOMAIN @ |->
                IF ps.warrior_to_pin[v] = ps.warrior_to_pin[warrior_id]
                THEN value ELSE @[v]]] >>
  ELSE << [ps EXCEPT
             !.pin_to_pspace[ps.warrior_to_pin[warrior_id]][location] = value] >>

\* the store after the write, or << >> for the InternalError
PSpace_write(ps, location, value, warrior_id) ==
  IF PSpace_read(ps, location, warrior_id) = << >> THEN << >>
  ELSE IF location = 0
  THEN << [ps EXCEPT !.zero_index_values[warrior_id] = value] >>
  ELSE << [ps EXCEPT
             !.pin_to_pspace[ps.warrior_to_pin[warrior_id]][location] = value] >>

\* the store with a zero-filled array under pin, or << >> if the pin exists
add_pspace(ps, pin) ==
  IF pin \in DOMAIN ps.pin_to_pspace THEN << >>
  ELSE << [ps EXCEPT !.pin_to_pspace =
             (pin :> [i \in 0..(PspaceSize - 1) |-> 0]) @@ @] >>

\* the store with warrior_id mapped to pin, or << >> if the pin has no array
assign_pspace(ps, warrior_id, pin) ==
  IF pin \notin DOMAIN ps.pin_to_pspace THEN << >>
  ELSE << [ps EXCEPT !.warrior_to_pin = (warrior_id :> pin) @@ @,
                     !.zero_index_values = (warrior_id :> 0) @@ @] >>

\* ------------------------------------------------------------------------
\* operand evaluator
\* ------------------------------------------------------------------------
RegisterValue(idx, cell) ==
  [idx |-> idx, instr |-> cell.instr,
   a_field |-> cell.a_field, b_field |-> cell.b_field]

\* the pre-decrement match with the two fields exchanged
predecrement_swapped(core, idx, mode, size) ==
  CASE mode = "PredecA" ->
         [core EXCEPT ![idx].b_field = decrement(@, size)]
    [] mode = "PredecB" ->
         [core EXCEPT ![idx].a_field = decrement(@, size)]
    [] OTHER -> core

\* the pre-decrement match of evaluate, for the operand whose base is idx
predecrement(core, idx, mode, size) ==
  CASE mode = "PredecA" ->
         [core EXCEPT ![idx].a_field = decrement(@, size)]
    [] mode = "PredecB" ->
         [core EXCEPT ![idx].b_field = decrement(@, size)]
    [] OTHER -> core

\* the post-increment match of evaluate
postincrement(core, idx, mode, size) ==
  CASE mode = "PostincA" ->
         [core EXCEPT ![idx].a_field = increment(@, size)]
    [] mode = "PostincB" ->
         [core EXCEPT ![idx].b_field = increment(@, size)]
    [] OTHER -> core

\* the target match with Immediate resolved like Direct
operand_target_immediate_direct(core, pc, field, idx, mode, size) ==
  CASE mode \in {"Immediate", "Direct"} -> add(field, pc, size)
    [] mode \in {"IndirectA", "PredecA", "PostincA"} ->
         add(idx, core[idx].a_field, size)
    [] mode \in {"IndirectB", "PredecB", "PostincB"} ->
         add(idx, core[idx].b_field, size)

\* the target match with Direct taken as an absolute address
operand_target_absolute(core, pc, field, idx, mode, size) ==
  CASE mode = "Immediate" -> pc
    [] mode = "Direct" -> field
    [] mode \in {"IndirectA", "PredecA", "PostincA"} ->
         add(idx, core[idx].a_field, size)
    [] mode \in {"IndirectB", "PredecB", "PostincB"} ->
         add(idx, core[idx].b_field, size)

\* the target match of evaluate: field is the operand's field of the
\* instruction at pc, idx = (pc + field) mod size, core is the core after
\* the operand's pre-decrement
operand_target(core, pc, field, idx, mode, size) ==
  CASE mode = "Immediate" -> pc
    [] mode = "Direct" -> add(field, pc, size)
    [] mode \in {"IndirectA", "PredecA", "PostincA"} ->
         add(idx, core[idx].a_field, size)
    [] mode \in {"IndirectB", "PredecB", "PostincB"} ->
         add(idx, core[idx].b_field, size)

\* the snapshot read after the post-increment instead of before it
operand_snapshot_late(predec, pc, field, idx, mode, size) ==
  CHOOSE r \in
    { [target |-> target,
       instr |-> postincrement(predec, idx, mode, size)[target],
       core |-> postincrement(predec, idx, mode, size)] :
        target \in { operand_target(predec, pc, field, idx, mode, size) } } :
    TRUE

\* the snapshot of one operand and the core after its post-increment;
\* predec is the core after the operand's pre-decrement
operand_snapshot(predec, pc, field, idx, mode, size) ==
  CHOOSE r \in
    { [target |-> target, instr |-> predec[target],
       core |-> postincrement(predec, idx, mode, size)] :
        target \in { operand_target(predec, pc, field, idx, mode, size) } } :
    TRUE

\* one operand of the instruction at pc, evaluated on the live core:
\* pre-decrement, target, snapshot, post-increment
evaluate_operand(core, pc, field, mode, size) ==
  CHOOSE r \in
    { operand_snapshot(predec, pc, field, add(field, pc, size), mode, size) :
        predec \in { predecrement(core, add(field, pc, size), mode, size) } } :
    TRUE

\* the Ok(RegisterValues { .. }) expression of evaluate with its validate
\* calls; a and b are the operands' snapshots
register_values(pc, cur, a, b, size) ==
  [err |-> IF /\ validate(pc, size)
              /\ validate(cur.a_field, size) /\ validate(cur.b_field, size)
              /\ validate(a.instr.a_field, size)
              /\ validate(a.instr.b_field, size)
              /\ validate(b.instr.a_field, size)
              /\ validate(b.instr.b_field, size)
           THEN "" ELSE "InternalError",
   core |-> b.core,
   regs |-> [current |-> RegisterValue(pc, cur),
             a |-> RegisterValue(a.target, a.instr),
             b |-> RegisterValue(b.target, b.instr)]]

\* the B half of evaluate, on the core left by the A operand
evaluate_b(pc, cur, a, size) ==
  CHOOSE r \in
    { register_values(pc, cur, a, b, size) :
        b \in { evaluate_operand(a.core, pc, cur.b_field,
                                 cur.instr.b_addr_mode, size) } } :
    TRUE

\* core.len(): the core is a vector of config.core_size cells from
\* Emulator::new on, and nothing resizes it
len(core) == Cardinality(DOMAIN core)

\* evaluate with the B operand resolved on the core as it was before the A
\* operand
evaluate_stale(pc, core) ==
  IF pc >= len(core)
  THEN [err |-> "InternalError", core |-> core, regs |-> << >>]
  ELSE CHOOSE r \in
         { register_values(pc, core[pc], ab[1], ab[2], ab[3]) :
             ab \in
               { << evaluate_operand(core, pc, core[pc].a_field,
                                     core[pc].instr.a_addr_mode, size),
                    evaluate_operand(core, pc, core[pc].b_field,
                                     core[pc].instr.b_addr_mode, size),
                    size >> : size \in { len(core) } } } :
         TRUE

\* [err, core, regs]: the core after the side effects (kept on error too)
\* and the register snapshot
evaluate(pc, core) ==
  IF pc >= len(core)
  THEN [err |-> "InternalError", core |-> core, regs |-> << >>]
  ELSE CHOOSE r \in
         { evaluate_b(pc, core[pc], a[1], a[2]) :
             a \in { << evaluate_operand(core, pc, core[pc].a_field,
                                         core[pc].instr.a_addr_mode, size),
                        size >> : size \in { len(core) } } } :
         TRUE

\* ------------------------------------------------------------------------
\* opcode handlers.  inputs = [warrior_id, regs, core_size, pq, core, pspace]
\* (OpInputs); each handler yields [err, core, pq, pspace]
\* ------------------------------------------------------------------------
OpResult(err, core, pq, pspace) ==
  [err |-> err, core |-> core, pq |-> pq, pspace |-> pspace]

\* dat_op enqueueing the next instruction
dat_op_next(inputs) ==
  OpResult("", inputs.core,
           push_back(inputs.pq,
                     offset(inputs.regs.current.idx, 1, inputs.core_size),
                     inputs.warrior_id),
           inputs.pspace)

dat_op(inputs) == OpResult("", inputs.core, inputs.pq, inputs.pspace)

mov_op(inputs) ==
  LET a == inputs.regs.a
      b == inputs.regs.b
      next_pc == offset(inputs.regs.current.idx, 1, inputs.core_size)
      pq1 == push_back(inputs.pq, next_pc, inputs.warrior_id)
      modifier == inputs.regs.current.instr.modifier
      core1 ==
        CASE modifier = "A" ->
               [inputs.core EXCEPT ![b.idx].a_field = a.a_field]
          [] modifier = "B" ->
               [inputs.core EXCEPT ![b.idx].b_field = a.b_field]
          [] modifier = "AB" ->
               [inputs.core EXCEPT ![b.idx].b_field = a.a_field]
          [] modifier = "BA" ->
               [inputs.core EXCEPT ![b.idx].a_field = a.b_field]
          [] modifier = "F" ->
               [inputs.core EXCEPT ![b.idx].a_field = a.a_field,
                                   ![b.idx].b_field = b.b_field]
          [] modifier = "X" ->
               [inputs.core EXCEPT ![b.idx].a_field = a.b_field,
                                   ![b.idx].b_field = b.a_field]
          [] modifier = "I" ->
               [inputs.core EXCEPT ![b.idx].instr = a.instr,
                                   ![b.idx].a_field = a.a_field,
                                   ![b.idx].b_field = a.b_field]
  IN  OpResult("", core1, pq1, inputs.pspace)

\* a division by zero yields 0 instead of None
perform_arithmetic_unguarded(lhs, rhs, opcode, core_size) ==
  CASE opcode = "Add" -> << offset(lhs, rhs, core_size) >>
    [] opcode = "Sub" -> << offset(lhs, 0 - rhs, core_size) >>
    [] opcode = "Mul" -> << (lhs * rhs) % core_size >>
    [] opcode = "Div" -> IF rhs # 0 THEN << lhs \div rhs >> ELSE << 0 >>
    [] opcode = "Mod" -> IF rhs # 0 THEN << lhs % rhs >> ELSE << 0 >>

\* Some(Err(InternalError))
ArithmeticError == << 0, "InternalError" >>

\* None (<< >>) only for a division by zero, Some(Ok(value)) as << value >>
perform_arithmetic(lhs, rhs, opcode, core_size) ==
  CASE opcode = "Add" ->
         IF offset_checked(lhs, rhs, core_size) = << >> THEN ArithmeticError
         ELSE offset_checked(lhs, rhs, core_size)
    [] opcode = "Sub" ->
         IF offset_checked(lhs, 0 - rhs, core_size) = << >>
         THEN ArithmeticError
         ELSE offset_checked(lhs, 0 - rhs, core_size)
    [] opcode = "Mul" ->
         IF lhs * rhs > u64_MAX \/ (lhs * rhs) % core_size > CoreAddr_MAX
         THEN ArithmeticError
         ELSE << (lhs * rhs) % core_size >>
    [] opcode = "Div" -> IF rhs # 0 THEN << lhs \div rhs >> ELSE << >>
    [] opcode = "Mod" -> IF rhs # 0 THEN << lhs % rhs >> ELSE << >>

arithmetic_op(inputs) ==
  LET a == inputs.regs.a
      b == inputs.regs.b
      op == inputs.regs.current.instr.opcode
      size == inputs.core_size
      next_pc == offset(inputs.regs.current.idx, 1, size)
      modifier == inputs.regs.current.instr.modifier
      pushed == push_back(inputs.pq, next_pc, inputs.warrior_id)
      \* the one-field modifiers: write `res` to field f of the B target
      one(res, f) ==
        IF res = << >>
        THEN OpResult("", inputs.core, inputs.pq, inputs.pspace)
        ELSE IF res = ArithmeticError
        THEN OpResult("InternalError", inputs.core, pushed, inputs.pspace)
        ELSE OpResult("",
               IF f = "a" THEN [inputs.core EXCEPT ![b.idx].a_field = res[1]]
                          ELSE [inputs.core EXCEPT ![b.idx].b_field = res[1]],
               pushed, inputs.pspace)
      \* the two-field modifiers: `first` goes to field f1, `second` to f2
      \* `first?` ends the handler before the second write
      two(first, f1, second, f2) ==
        LET c1 == IF first = << >> \/ first = ArithmeticError THEN inputs.core
                  ELSE IF f1 = "a"
                  THEN [inputs.core EXCEPT ![b.idx].a_field = first[1]]
                  ELSE [inputs.core EXCEPT ![b.idx].b_field = first[1]]
            c2 == IF \/ second = << >> \/ second = ArithmeticError
                     \/ first = ArithmeticError
                  THEN c1
                  ELSE IF f2 = "a"
                  THEN [c1 EXCEPT ![b.idx].a_field = second[1]]
                  ELSE [c1 EXCEPT ![b.idx].b_field = second[1]]
        IN  OpResult(IF first = ArithmeticError \/ second = ArithmeticError
                     THEN "InternalError" ELSE "",
              c2,
              IF first # << >> /\ second # << >> THEN pushed ELSE inputs.pq,
              inputs.pspace)
  IN  CASE modifier = "A" ->
             one(perform_arithmetic(b.a_field, a.a_field, op, size), "a")
        [] modifier = "B" ->
             one(perform_arithmetic(b.b_field, a.b_field, op, size), "b")
        [] modifier = "AB" ->
             one(perform_arithmetic(b.b_field, a.a_field, op, size), "b")
        [] modifier = "BA" ->
             one(perform_arithmetic(b.a_field, a.b_field, op, size), "a")
        [] modifier \in {"F", "I"} ->
             two(perform_arithmetic(b.a_field, a.a_field, op, size), "a",
                 perform_arithmetic(b.b_field, a.b_field, op, size), "b")
        [] modifier = "X" ->
             two(perform_arithmetic(b.b_field, a.a_field, op, size), "b",
                 perform_arithmetic(b.a_field, a.b_field, op, size), "a")

\* Jmp falling through to the next pc
jmp_op_next(inputs) ==
  OpResult("", inputs.core,
           push_back(inputs.pq,
                     offset(inputs.regs.current.idx, 1, inputs.core_size),
                     inputs.warrior_id),
           inputs.pspace)

jmp_op(inputs) ==
  OpResult("", inputs.core,
           push_back(inputs.pq, inputs.regs.a.idx, inputs.warrior_id),
           inputs.pspace)

\* push a.idx if cond holds, else the next pc
jump_if(inputs, cond) ==
  LET next_pc == offset(inputs.regs.current.idx, 1, inputs.core_size)
  IN  push_back(inputs.pq, IF cond THEN inputs.regs.a.idx ELSE next_pc,
                inputs.warrior_id)

\* jmz_op clearing the cell of the A operand
jmz_op_clearing(inputs) ==
  LET b == inputs.regs.b
      modifier == inputs.regs.current.instr.modifier
      is_zero ==
        CASE modifier \in {"A", "BA"} -> b.a_field = 0
          [] modifier \in {"B", "AB"} -> b.b_field = 0
          [] modifier \in {"F", "X", "I"} -> b.a_field = 0 /\ b.b_field = 0
  IN  OpResult("",
               [inputs.core EXCEPT ![inputs.regs.a.idx] =
                  CompleteInstruction(DefaultInstruction, 0, 0)],
               jump_if(inputs, is_zero), inputs.pspace)

jmz_op(inputs) ==
  LET b == inputs.regs.b
      modifier == inputs.regs.current.instr.modifier
      is_zero ==
        CASE modifier \in {"A", "BA"} -> b.a_field = 0
          [] modifier \in {"B", "AB"} -> b.b_field = 0
          [] modifier \in {"F", "X", "I"} -> b.a_field = 0 /\ b.b_field = 0
  IN  OpResult("", inputs.core, jump_if(inputs, is_zero), inputs.pspace)

\* jmn_op with the two-field modifiers requiring both fields to be nonzero
jmn_op_both(inputs) ==
  LET b == inputs.regs.b
      modifier == inputs.regs.current.instr.modifier
      is_non_zero ==
        CASE modifier \in {"A", "BA"} -> b.a_field # 0
          [] modifier \in {"B", "AB"} -> b.b_field # 0
          [] modifier \in {"F", "X", "I"} -> b.a_field # 0 /\ b.b_field # 0
  IN  OpResult("", inputs.core, jump_if(inputs, is_non_zero), inputs.pspace)

jmn_op(inputs) ==
  LET b == inputs.regs.b
      modifier == inputs.regs.current.instr.modifier
      is_non_zero ==
        CASE modifier \in {"A", "BA"} -> b.a_field # 0
          [] modifier \in {"B", "AB"} -> b.b_field # 0
          [] modifier \in {"F", "X", "I"} -> b.a_field # 0 \/ b.b_field # 0
  IN  OpResult("", inputs.core, jump_if(inputs, is_non_zero), inputs.pspace)

\* djn_op deciding the jump on the value it has just written to the core
djn_op_in_core(inputs) ==
  LET b == inputs.regs.b
      size == inputs.core_size
      modifier == inputs.regs.current.instr.modifier
      b_target == inputs.core[b.idx]
      core1 ==
        CASE modifier \in {"A", "BA"} ->
               [inputs.core EXCEPT
                  ![b.idx].a_field = decrement(b_target.a_field, size)]
          [] modifier \in {"B", "AB"} ->
               [inputs.core EXCEPT
                  ![b.idx].b_field = decrement(b_target.b_field, size)]
          [] modifier \in {"F", "X", "I"} ->
               [inputs.core EXCEPT
                  ![b.idx].a_field = decrement(b_target.a_field, size),
                  ![b.idx].b_field = decrement(b_target.b_field, size)]
      non_zero ==
        CASE modifier \in {"A", "BA"} -> core1[b.idx].a_field # 0
          [] modifier \in {"B", "AB"} -> core1[b.idx].b_field # 0
          [] modifier \in {"F", "X", "I"} ->
               core1[b.idx].a_field # 0 \/ core1[b.idx].b_field # 0
  IN  OpResult("", core1, jump_if(inputs, non_zero), inputs.pspace)

djn_op(inputs) ==
  LET b == inputs.regs.b
      size == inputs.core_size
      modifier == inputs.regs.current.instr.modifier
      b_target == inputs.core[b.idx]
      core1 ==
        CASE modifier \in {"A", "BA"} ->
               [inputs.core EXCEPT
                  ![b.idx].a_field = decrement(b_target.a_field, size)]
          [] modifier \in {"B", "AB"} ->
               [inputs.core EXCEPT
                  ![b.idx].b_field = decrement(b_target.b_field, size)]
          [] modifier \in {"F", "X", "I"} ->
               [inputs.core EXCEPT
                  ![b.idx].a_field = decrement(b_target.a_field, size),
                  ![b.idx].b_field = decrement(b_target.b_field, size)]
      non_zero ==
        CASE modifier \in {"A", "BA"} -> decrement(b.a_field, size) # 0
          [] modifier \in {"B", "AB"} -> decrement(b.b_field, size) # 0
          [] modifier \in {"F", "X", "I"} ->
               decrement(b.a_field, size) # 0 \/ decrement(b.b_field, size) # 0
  IN  OpResult("", core1, jump_if(inputs, non_zero), inputs.pspace)

\* Spl pushing the jump target before the next pc
spl_op_target_first(inputs) ==
  LET next_pc == offset(inputs.regs.current.idx, 1, inputs.core_size)
      pq1 == push_back(inputs.pq, inputs.regs.a.idx, inputs.warrior_id)
  IN  OpResult("", inputs.core,
               push_back(pq1, next_pc, inputs.warrior_id),
               inputs.pspace)

spl_op(inputs) ==
  LET next_pc == offset(inputs.regs.current.idx, 1, inputs.core_size)
      pq1 == push_back(inputs.pq, next_pc, inputs.warrior_id)
  IN  OpResult("", inputs.core,
               push_back(pq1, inputs.regs.a.idx, inputs.warrior_id),
               inputs.pspace)

\* push pc + 2 if cond holds, else pc + 1
skip_if(inputs, cond) ==
  LET amt == IF cond THEN 2 ELSE 1
  IN  OpResult("", inputs.core,
        push_back(inputs.pq,
                  offset(inputs.regs.current.idx, amt, inputs.core_size),
                  inputs.warrior_id),
        inputs.pspace)

slt_op(inputs) ==
  LET a == inputs.regs.a
      b == inputs.regs.b
      modifier == inputs.regs.current.instr.modifier
      is_less_than ==
        CASE modifier = "A" -> a.a_field < b.a_field
          [] modifier = "B" -> a.b_field < b.b_field
          [] modifier = "AB" -> a.a_field < b.b_field
          [] modifier = "BA" -> a.b_field < b.a_field
          [] modifier \in {"F", "I"} ->
               a.a_field < b.a_field /\ a.b_field < b.b_field
          [] modifier = "X" -> a.a_field < b.b_field /\ a.b_field < b.a_field
  IN  skip_if(inputs, is_less_than)

\* cmp_op with modifier I comparing the two fields only
cmp_op_fields(inputs) ==
  LET a == inputs.regs.a
      b == inputs.regs.b
      modifier == inputs.regs.current.instr.modifier
      is_equal ==
        CASE modifier = "A" -> a.a_field = b.a_field
          [] modifier = "B" -> a.b_field = b.b_field
          [] modifier = "AB" -> a.a_field = b.b_field
          [] modifier = "BA" -> a.b_field = b.a_field
          [] modifier \in {"F", "I"} ->
               a.a_field = b.a_field /\ a.b_field = b.b_field
          [] modifier = "X" -> a.a_field = b.b_field /\ a.b_field = b.a_field
  IN  skip_if(inputs, is_equal)

cmp_op(inputs) ==
  LET a == inputs.regs.a
      b == inputs.regs.b
      modifier == inputs.regs.current.instr.modifier
      is_equal ==
        CASE modifier = "A" -> a.a_field = b.a_field
          [] modifier = "B" -> a.b_field = b.b_field
          [] modifier = "AB" -> a.a_field = b.b_field
          [] modifier = "BA" -> a.b_field = b.a_field
          [] modifier = "F" -> a.a_field = b.a_field /\ a.b_field = b.b_field
          [] modifier = "X" -> a.a_field = b.b_field /\ a.b_field = b.a_field
          [] modifier = "I" ->
               /\ a.instr = b.instr
               /\ a.a_field = b.a_field
               /\ a.b_field = b.b_field
  IN  skip_if(inputs, is_equal)

\* sne_op asking for a difference in both fields with F and X
sne_op_both(inputs) ==
  LET a == inputs.regs.a
      b == inputs.regs.b
      modifier == inputs.regs.current.instr.modifier
      is_not_equal ==
        CASE modifier = "A" -> a.a_field # b.a_field
          [] modifier = "B" -> a.b_field # b.b_field
          [] modifier = "AB" -> a.a_field # b.b_field
          [] modifier = "BA" -> a.b_field # b.a_field
          [] modifier = "F" -> a.a_field # b.a_field /\ a.b_field # b.b_field
          [] modifier = "X" -> a.a_field # b.b_field /\ a.b_field # b.a_field
          [] modifier = "I" ->
               \/ a.instr # b.instr
               \/ a.a_field # b.a_field
               \/ a.b_field # b.b_field
  IN  skip_if(inputs, is_not_equal)

sne_op(inputs) ==
  LET a == inputs.regs.a
      b == inputs.regs.b
      modifier == inputs.regs.current.instr.modifier
      is_not_equal ==
        CASE modifier = "A" -> a.a_field # b.a_field
          [] modifier = "B" -> a.b_field # b.b_field
          [] modifier = "AB" -> a.a_field # b.b_field
          [] modifier = "BA" -> a.b_field # b.a_field
          [] modifier = "F" -> a.a_field # b.a_field \/ a.b_field # b.b_field
          [] modifier = "X" -> a.a_field # b.b_field \/ a.b_field # b.a_field
          [] modifier = "I" ->
               \/ a.instr # b.instr
               \/ a.a_field # b.a_field
               \/ a.b_field # b.b_field
  IN  skip_if(inputs, is_not_equal)

nop_op(inputs) == skip_if(inputs, FALSE)

ldp_op(inputs) ==
  LET a == inputs.regs.a
      b == inputs.regs.b
      modifier == inputs.regs.current.instr.modifier
      pq1 == push_back(inputs.pq,
                       offset(inputs.regs.current.idx, 1, inputs.core_size),
                       inputs.warrior_id)
      source_index == IF modifier \in {"A", "AB"} THEN a.a_field ELSE a.b_field
      value == PSpace_read(inputs.pspace, source_index, inputs.warrior_id)
  IN  IF value = << >>
      THEN OpResult("InternalError", inputs.core, pq1, inputs.pspace)
      ELSE OpResult("",
             IF modifier \in {"A", "BA"}
             THEN [inputs.core EXCEPT ![b.idx].a_field = value[1]]
             ELSE [inputs.core EXCEPT ![b.idx].b_field = value[1]],
             pq1, inputs.pspace)

\* stp_op taking the value from the B operand and the index from the A operand
stp_op_swapped(inputs) ==
  LET a == inputs.regs.a
      b == inputs.regs.b
      modifier == inputs.regs.current.instr.modifier
      source_value == IF modifier \in {"A", "AB"} THEN b.a_field ELSE b.b_field
      pspace_dest_index ==
        IF modifier \in {"A", "BA"} THEN a.a_field ELSE a.b_field
      written == PSpace_write(inputs.pspace, pspace_dest_index, source_value,
                              inputs.warrior_id)
  IN  IF written = << >>
      THEN OpResult("InternalError", inputs.core, inputs.pq, inputs.pspace)
      ELSE OpResult("", inputs.core,
             push_back(inputs.pq,
                       offset(inputs.regs.current.idx, 1, inputs.core_size),
                       inputs.warrior_id),
             written[1])

\* stp_op storing into the PSPACE of warrior 0 whoever executes it
stp_op_first_warrior(inputs) ==
  LET a == inputs.regs.a
      b == inputs.regs.b
      modifier == inputs.regs.current.instr.modifier
      source_value == IF modifier \in {"A", "AB"} THEN a.a_field ELSE a.b_field
      pspace_dest_index ==
        IF modifier \in {"A", "BA"} THEN b.a_field ELSE b.b_field
      written == PSpace_write(inputs.pspace, pspace_dest_index, source_value, 0)
  IN  IF written = << >>
      THEN OpResult("InternalError", inputs.core, inputs.pq, inputs.pspace)
      ELSE OpResult("", inputs.core,
             push_back(inputs.pq,
                       offset(inputs.regs.current.idx, 1, inputs.core_size),
                       inputs.warrior_id),
             written[1])

stp_op(inputs) ==
  LET a == inputs.regs.a
      b == inputs.regs.b
      modifier == inputs.regs.current.instr.modifier
      source_value == IF modifier \in {"A", "AB"} THEN a.a_field ELSE a.b_field
      pspace_dest_index ==
        IF modifier \in {"A", "BA"} THEN b.a_field ELSE b.b_field
      written == PSpace_write(inputs.pspace, pspace_dest_index, source_value,
                              inputs.warrior_id)
  IN  IF written = << >>
      THEN OpResult("InternalError", inputs.core, inputs.pq, inputs.pspace)
      ELSE OpResult("", inputs.core,
             push_back(inputs.pq,
                       offset(inputs.regs.current.idx, 1, inputs.core_size),
                       inputs.warrior_id),
             written[1])

\* ------------------------------------------------------------------------
\* Emulator: the API as functions of the state; each yields a record with
\* err ("" for Ok) and the parts of the state it may change
\* ------------------------------------------------------------------------
validate_addr_param(val) == val < CoreSize

validate_warrior_param(warrior_id) == warrior_id < Warriors

bytecode_to_rc(bytecode_instr) == decode(bytecode_instr)

rc_to_bytecode(redcode_instr) == encode(redcode_instr)

\* the match on the opcode of step_emulator
dispatch(inputs) ==
  CASE inputs.regs.current.instr.opcode = "Dat" -> dat_op(inputs)
    [] inputs.regs.current.instr.opcode = "Mov" -> mov_op(inputs)
    [] inputs.regs.current.instr.opcode
         \in {"Add", "Sub", "Mul", "Div", "Mod"} -> arithmetic_op(inputs)
    [] inputs.regs.current.instr.opcode = "Jmp" -> jmp_op(inputs)
    [] inputs.regs.current.instr.opcode = "Jmz" -> jmz_op(inputs)
    [] inputs.regs.current.instr.opcode = "Jmn" -> jmn_op(inputs)
    [] inputs.regs.current.instr.opcode = "Djn" -> djn_op(inputs)
    [] inputs.regs.current.instr.opcode = "Spl" -> spl_op(inputs)
    [] inputs.regs.current.instr.opcode = "Slt" -> slt_op(inputs)
    [] inputs.regs.current.instr.opcode \in {"Cmp", "Seq"} -> cmp_op(inputs)
    [] inputs.regs.current.instr.opcode = "Sne" -> sne_op(inputs)
    [] inputs.regs.current.instr.opcode = "Nop" -> nop_op(inputs)
    [] inputs.regs.current.instr.opcode = "Ldp" -> ldp_op(inputs)
    [] inputs.regs.current.instr.opcode = "Stp" -> stp_op(inputs)

\* step_emulator after operand evaluation yielded ev
execute(ev, warrior_id, pq, pspace) ==
  IF ev.err # "" THEN OpResult(ev.err, ev.core, pq, pspace)
  ELSE CHOOSE r \in
         { dispatch(inputs) :
             inputs \in { [warrior_id |-> warrior_id, regs |-> ev.regs,
                           core_size |-> len(ev.core), pq |-> pq,
                           core |-> ev.core, pspace |-> pspace] } } :
         TRUE

\* executes the instruction at pc as warrior_id
step_emulator(pc, warrior_id, core, pq, pspace) ==
  CHOOSE r \in
    { execute(ev, warrior_id, pq, pspace) : ev \in { evaluate(pc, core) } } :
    TRUE

\* the Some(pc) arm of step; r is the result of step_emulator
stepped(pc, r) ==
  [err |-> r.err, val |-> IF r.err = "" THEN << pc >> ELSE << >>,
   core |-> r.core, pq |-> r.pq, pspace |-> r.pspace]

\* step reading the head of the queue without removing it
step_peek(warrior_id, core, pq, pspace) ==
  IF ~validate_warrior_param(warrior_id)
  THEN [err |-> "InvalidParam", val |-> << >>,
        core |-> core, pq |-> pq, pspace |-> pspace]
  ELSE IF pq[warrior_id] = << >>
  THEN [err |-> "", val |-> << >>, core |-> core, pq |-> pq, pspace |-> pspace]
  ELSE CHOOSE res \in
         { stepped(Head(pq[warrior_id]), r) :
             r \in { step_emulator(Head(pq[warrior_id]), warrior_id, core,
                                   pq, pspace) } } :
         TRUE

\* step taking the newest entry of the queue instead of the oldest
step_newest(warrior_id, core, pq, pspace) ==
  IF ~validate_warrior_param(warrior_id)
  THEN [err |-> "InvalidParam", val |-> << >>,
        core |-> core, pq |-> pq, pspace |-> pspace]
  ELSE IF pq[warrior_id] = << >>
  THEN [err |-> "", val |-> << >>, core |-> core, pq |-> pq, pspace |-> pspace]
  ELSE LET q == pq[warrior_id]
       IN  CHOOSE res \in
             { stepped(q[Len(q)], r) :
                 r \in { step_emulator(q[Len(q)], warrior_id, core,
                                       [pq EXCEPT ![warrior_id] =
                                          SubSeq(q, 1, Len(q) - 1)],
                                       pspace) } } :
             TRUE

\* [err, val, core, pq, pspace]; val is None (<< >>) or Some(pc) (<< pc >>)
step(warrior_id, core, pq, pspace) ==
  IF ~validate_warrior_param(warrior_id)
  THEN [err |-> "InvalidParam", val |-> << >>,
        core |-> core, pq |-> pq, pspace |-> pspace]
  ELSE IF pq[warrior_id] = << >>
  THEN [err |-> "", val |-> << >>, core |-> core, pq |-> pq, pspace |-> pspace]
  ELSE CHOOSE res \in
         { stepped(Head(pq[warrior_id]), r) :
             r \in { step_emulator(Head(pq[warrior_id]), warrior_id, core,
                                   [pq EXCEPT ![warrior_id] = Tail(@)],
                                   pspace) } } :
         TRUE

active_warrior_set(pq) == active_warriors(pq)

\* Ok((bytecode, a_field, b_field)) as a one-element sequence, << >> for
\* InvalidParam
read_core(core, addr) ==
  IF ~validate_addr_param(addr) THEN << >>
  ELSE << << rc_to_bytecode(core[addr].instr),
             core[addr].a_field, core[addr].b_field >> >>

\* [err, core]
write_core(core, addr, insn, a_field, b_field) ==
  IF ~validate_addr_param(addr) \/ ~validate_addr_param(addr)
     \/ ~validate_addr_param(addr)
  THEN [err |-> "InvalidParam", core |-> core]
  ELSE IF bytecode_to_rc(insn) = << >>
  THEN [err |-> "InvalidParam", core |-> core]
  ELSE [err |-> "",
        core |-> [core EXCEPT ![addr] =
                    CompleteInstruction(bytecode_to_rc(insn)[1],
                                        a_field, b_field)]]

\* Ok(value) as << value >>, << >> for InvalidParam
read_pspace(pspace, warrior_id, addr) ==
  IF ~validate_warrior_param(warrior_id) THEN << >>
  ELSE IF addr >= PspaceSize THEN << >>
  ELSE PSpace_read(pspace, addr, warrior_id)

\* [err, pspace]
write_pspace(pspace, warrior_id, addr, value) ==
  IF \/ ~validate_addr_param(value)
     \/ ~validate_warrior_param(warrior_id)
     \/ addr >= PspaceSize
     \/ PSpace_write(pspace, addr, value, warrior_id) = << >>
  THEN [err |-> "InvalidParam", pspace |-> pspace]
  ELSE [err |-> "",
        pspace |-> PSpace_write(pspace, addr, value, warrior_id)[1]]

\* reset_core that leaves the PSPACE as it is
reset_core_keep_pspace(core, pq, pspace, initial_instr, initial_a, initial_b) ==
  IF bytecode_to_rc(initial_instr) = << >>
  THEN OpResult("InvalidParam", core, pq, pspace)
  ELSE OpResult("",
         [k \in 0..(CoreSize - 1) |->
            CompleteInstruction(bytecode_to_rc(initial_instr)[1],
                                initial_a, initial_b)],
         ProcessQueueSet_new, pspace)

\* [err, core, pq, pspace]
reset_core(core, pq, pspace, initial_instr, initial_a, initial_b) ==
  IF bytecode_to_rc(initial_instr) = << >>
  THEN OpResult("InvalidParam", core, pq, pspace)
  ELSE OpResult("",
         [k \in 0..(CoreSize - 1) |->
            CompleteInstruction(bytecode_to_rc(initial_instr)[1],
                                initial_a, initial_b)],
         ProcessQueueSet_new, PSpace_new)

read_process_queue(pq, warrior_id) ==
  IF warrior_id \in DOMAIN pq THEN << pq[warrior_id] >> ELSE << >>

\* replace_queue without the check of the length
replace_queue_unbounded(pq, warrior_id, process_queue) ==
  IF warrior_id >= Warriors
  THEN [err |-> "InternalError", pq |-> pq]
  ELSE [err |-> "", pq |-> [pq EXCEPT ![warrior_id] = process_queue]]

\* ProcessQueueSet::replace_queue: [err, pq]
replace_queue(pq, warrior_id, process_queue) ==
  IF warrior_id >= Warriors \/ Len(process_queue) > Processes
  THEN [err |-> "InternalError", pq |-> pq]
  ELSE [err |-> "", pq |-> [pq EXCEPT ![warrior_id] = process_queue]]

\* replace_process_queue without the validation of the entries
replace_process_queue_unvalidated(pq, warrior_id, process_queue) ==
  replace_queue(pq, warrior_id, process_queue)

\* [err, pq]
replace_process_queue(pq, warrior_id, process_queue) ==
  IF \E i \in 1..Len(process_queue) : ~validate_addr_param(process_queue[i])
  THEN [err |-> "InvalidParam", pq |-> pq]
  ELSE replace_queue(pq, warrior_id, process_queue)

RECURSIVE add_all(_, _, _)
\* add_pspace for each pin of pspace_map[i..] not seen at an earlier index
add_all(ps, pspace_map, i) ==
  IF i > Len(pspace_map) THEN << ps >>
  ELSE IF \E j \in 1..(i - 1) : pspace_map[j][1] = pspace_map[i][1]
  THEN add_all(ps, pspace_map, i + 1)
  ELSE LET r == add_pspace(ps, pspace_map[i][1])
       IN  IF r = << >> THEN << >> ELSE add_all(r[1], pspace_map, i + 1)

RECURSIVE assign_all(_, _, _)
\* assign_pspace for each (pin, warrior) of pspace_map[i..]
assign_all(ps, pspace_map, i) ==
  IF i > Len(pspace_map) THEN << ps >>
  ELSE LET r == assign_pspace(ps, pspace_map[i][2], pspace_map[i][1])
       IN  IF r = << >> THEN << >> ELSE assign_all(r[1], pspace_map, i + 1)

\* pspace_map is a sequence of << pin, warrior_id >>: [err, pspace]
initialize_pspace(pspace, pspace_map) ==
  IF \E i \in 1..Len(pspace_map) : ~validate_warrior_param(pspace_map[i][2])
  THEN [err |-> "InvalidParam", pspace |-> pspace]
  ELSE LET added == add_all(PSpace_new, pspace_map, 1)
           assigned == assign_all(added[1], pspace_map, 1)
       IN  [err |-> "", pspace |-> assigned[1]]

\* ------------------------------------------------------------------------
\* state of one emulator and of its caller
\* ------------------------------------------------------------------------
VARIABLES
  core,     \* EmulatorState.core: address -> CompleteInstruction
  pq,       \* EmulatorState.pq: warrior id -> queue of program counters
  pspace,   \* EmulatorState.pspace
  run,      \* the position of a call of run in progress and its locals
  ret,      \* the result of the last completed API call: [err, val]
  setup     \* number of API calls other than step and run made so far

vars == << core, pq, pspace, run, ret, setup >>

\* Emulator::new: default core, empty queues, empty PSPACE
Emulator_new ==
  /\ core = [k \in 0..(CoreSize - 1) |->
               CompleteInstruction(DefaultInstruction, 0, 0)]
  /\ pq = ProcessQueueSet_new
  /\ pspace = PSpace_new

RunIdle ==
  [pc |-> "idle", cycles |-> 0, warriors_remaining |-> 0,
   cycles_executed |-> 0, snapshot |-> << >>, idx |-> 0]

Init ==
  /\ Emulator_new
  /\ run = RunIdle
  /\ ret = [err |-> "", val |-> << >>]
  /\ setup = 0

\* ---- inputs of the API calls explored --------------------------------
Imp == Instruction("Mov", "I", "Direct", "Direct")

ProgramInstructions ==
  { DefaultInstruction, Imp,
    Instruction("Div", "F", "Immediate", "Immediate"),
    Instruction("Spl", "B", "Direct", "Direct") }

\* a bytecode that does not decode: the last byte is no addressing mode
InvalidBytecode == encode(DefaultInstruction) + 255

InsnInputs == { encode(i) : i \in ProgramInstructions } \cup { InvalidBytecode }

\* CoreSize itself is the out-of-range address / field value
AddrInputs == 0..CoreSize

FieldInputs == { << 0, 0 >>, << 0, 1 >>, << 1, 0 >>, << CoreSize, 1 >> }

QueueInputs ==
  { << >>, << 0 >>, << 1 >>, << 0, 1 >>, << CoreSize >>,
    [i \in 1..(Processes + 1) |-> 0] }

PspaceMapInputs ==
  { << >>, << << 0, 0 >> >>, << << 0, 0 >>, << 0, 1 >> >>,
    << << 0, 0 >>, << 1, 1 >> >>, << << 0, Warriors >> >> }

\* ---- API calls -------------------------------------------------------
Idle == run.pc = "idle"

WriteCore(addr, insn, a_field, b_field) ==
  /\ Idle /\ setup < MaxSetup
  /\ \E r \in { write_core(core, addr, insn, a_field, b_field) } :
         /\ core' = r.core
         /\ ret' = [err |-> r.err, val |-> << >>]
  /\ setup' = setup + 1
  /\ UNCHANGED << pq, pspace, run >>

ResetCore(insn, a, b) ==
  /\ Idle /\ setup < MaxSetup
  /\ \E r \in { reset_core(core, pq, pspace, insn, a, b) } :
         /\ core' = r.core /\ pq' = r.pq /\ pspace' = r.pspace
         /\ ret' = [err |-> r.err, val |-> << >>]
  /\ setup' = setup + 1
  /\ UNCHANGED run

\* val is the triple read; the only error return is an InvalidParam
ReadCore(addr) ==
  /\ Idle
  /\ \E r \in { read_core(core, addr) } :
         ret' = IF r = << >> THEN [err |-> "InvalidParam", val |-> << >>]
                ELSE [err |-> "", val |-> r[1]]
  /\ UNCHANGED << core, pq, pspace, run, setup >>

\* the only error return of read_queue is an InternalError; val is the
\* queue read
ReadProcessQueue(warrior_id) ==
  /\ Idle
  /\ \E r \in { read_process_queue(pq, warrior_id) } :
         ret' = IF r = << >> THEN [err |-> "InternalError", val |-> << >>]
                ELSE [err |-> "", val |-> r[1]]
  /\ UNCHANGED << core, pq, pspace, run, setup >>

ReplaceProcessQueue(warrior_id, process_queue) ==
  /\ Idle /\ setup < MaxSetup
  /\ \E r \in { replace_process_queue(pq, warrior_id, process_queue) } :
         /\ pq' = r.pq
         /\ ret' = [err |-> r.err, val |-> << >>]
  /\ setup' = setup + 1
  /\ UNCHANGED << core, pspace, run >>

InitializePspace(pspace_map) ==
  /\ Idle /\ setup < MaxSetup
  /\ \E r \in { initialize_pspace(pspace, pspace_map) } :
         /\ pspace' = r.pspace
         /\ ret' = [err |-> r.err, val |-> << >>]
  /\ setup' = setup + 1
  /\ UNCHANGED << core, pq, run >>

\* every error return of read_pspace is an InvalidParam
ReadPspace(warrior_id, addr) ==
  /\ Idle
  /\ \E r \in { read_pspace(pspace, warrior_id, addr) } :
         ret' = [err |-> IF r = << >> THEN "InvalidParam" ELSE "", val |-> r]
  /\ UNCHANGED << core, pq, pspace, run, setup >>

WritePspace(warrior_id, addr, value) ==
  /\ Idle /\ setup < MaxSetup
  /\ \E r \in { write_pspace(pspace, warrior_id, addr, value) } :
         /\ pspace' = r.pspace
         /\ ret' = [err |-> r.err, val |-> << >>]
  /\ setup' = setup + 1
  /\ UNCHANGED << core, pq, run >>

Step(warrior_id) ==
  /\ Idle
  /\ \E r \in { step(warrior_id, core, pq, pspace) } :
         /\ core' = r.core /\ pq' = r.pq /\ pspace' = r.pspace
         /\ ret' = [err |-> r.err, val |-> r.val]
  /\ UNCHANGED << run, setup >>

\* run(cycles, warriors_remaining) is entered: cycles_executed = 0
Run(cycles, warriors_remaining) ==
  /\ Idle
  /\ run' = [pc |-> "while", cycles |-> cycles,
             warriors_remaining |-> warriors_remaining,
             cycles_executed |-> 0, snapshot |-> << >>, idx |-> 0]
  /\ UNCHANGED << core, pq, pspace, ret, setup >>

\* the while condition without the test of the cycle count
RunWhile_uncounted ==
  /\ run.pc = "while"
  /\ IF Len(active_warrior_set(pq)) > run.warriors_remaining
     THEN /\ run' = [run EXCEPT !.pc = "for",
                                !.snapshot = active_warrior_set(pq),
                                !.idx = 1]
          /\ UNCHANGED ret
     ELSE /\ run' = RunIdle
          /\ ret' = [err |-> "", val |-> << run.cycles_executed >>]
  /\ UNCHANGED << core, pq, pspace, setup >>

\* the while condition: start a cycle over active_warrior_set(), or return
RunWhile ==
  /\ run.pc = "while"
  /\ IF /\ run.cycles_executed < run.cycles
        /\ Len(active_warrior_set(pq)) > run.warriors_remaining
     THEN /\ run' = [run EXCEPT !.pc = "for",
                                !.snapshot = active_warrior_set(pq),
                                !.idx = 1]
          /\ UNCHANGED ret
     ELSE /\ run' = RunIdle
          /\ ret' = [err |-> "", val |-> << run.cycles_executed >>]
  /\ UNCHANGED << core, pq, pspace, setup >>

\* the for loop over the active warriors as they are now, not as they were
\* at the start of the cycle
RunFor_live ==
  /\ run.pc = "for"
  /\ IF run.idx > Len(active_warrior_set(pq))
     THEN /\ run' = [run EXCEPT !.pc = "while", !.snapshot = << >>, !.idx = 0,
                                !.cycles_executed = @ + 1]
          /\ UNCHANGED << core, pq, pspace, ret >>
     ELSE \E r \in { step(active_warrior_set(pq)[run.idx], core, pq, pspace) } :
              /\ core' = r.core /\ pq' = r.pq /\ pspace' = r.pspace
              /\ IF r.err # ""
                 THEN /\ run' = RunIdle
                      /\ ret' = [err |-> r.err, val |-> << >>]
                 ELSE /\ run' = [run EXCEPT !.idx = @ + 1]
                      /\ UNCHANGED ret
  /\ UNCHANGED setup

\* the for loop ending the cycle as soon as no more than warriors_remaining
\* warriors are active
RunFor_rechecked ==
  /\ run.pc = "for"
  /\ IF \/ run.idx > Len(run.snapshot)
        \/ Len(active_warrior_set(pq)) <= run.warriors_remaining
     THEN /\ run' = [run EXCEPT !.pc = "while", !.snapshot = << >>, !.idx = 0,
                                !.cycles_executed = @ + 1]
          /\ UNCHANGED << core, pq, pspace, ret >>
     ELSE \E r \in { step(run.snapshot[run.idx], core, pq, pspace) } :
              /\ core' = r.core /\ pq' = r.pq /\ pspace' = r.pspace
              /\ IF r.err # ""
                 THEN /\ run' = RunIdle
                      /\ ret' = [err |-> r.err, val |-> << >>]
                 ELSE /\ run' = [run EXCEPT !.idx = @ + 1]
                      /\ UNCHANGED ret
  /\ UNCHANGED setup

\* the for loop going on to the next warrior when step returns an error
RunFor_lenient ==
  /\ run.pc = "for"
  /\ IF run.idx > Len(run.snapshot)
     THEN /\ run' = [run EXCEPT !.pc = "while", !.snapshot = << >>, !.idx = 0,
                                !.cycles_executed = @ + 1]
          /\ UNCHANGED << core, pq, pspace, ret >>
     ELSE \E r \in { step(run.snapshot[run.idx], core, pq, pspace) } :
              /\ core' = r.core /\ pq' = r.pq /\ pspace' = r.pspace
              /\ run' = [run EXCEPT !.idx = @ + 1]
              /\ UNCHANGED ret
  /\ UNCHANGED setup

\* one iteration of `for w in snapshot { self.step(w)? }`, or its end
RunFor ==
  /\ run.pc = "for"
  /\ IF run.idx > Len(run.snapshot)
     THEN /\ run' = [run EXCEPT !.pc = "while", !.snapshot = << >>, !.idx = 0,
                                !.cycles_executed = @ + 1]
          /\ UNCHANGED << core, pq, pspace, ret >>
     ELSE \E r \in { step(run.snapshot[run.idx], core, pq, pspace) } :
              /\ core' = r.core /\ pq' = r.pq /\ pspace' = r.pspace
              /\ IF r.err # ""
                 THEN /\ run' = RunIdle
                      /\ ret' = [err |-> r.err, val |-> << >>]
                 ELSE /\ run' = [run EXCEPT !.idx = @ + 1]
                      /\ UNCHANGED ret
  /\ UNCHANGED setup

Next ==
  \/ \E addr \in AddrInputs, insn \in InsnInputs, f \in FieldInputs :
       WriteCore(addr, insn, f[1], f[2])
  \/ \E insn \in InsnInputs, f \in FieldInputs : ResetCore(insn, f[1], f[2])
  \/ \E w \in 0..Warriors, q \in QueueInputs : ReplaceProcessQueue(w, q)
  \/ \E w \in 0..Warriors : ReadProcessQueue(w)
  \/ \E m \in PspaceMapInputs : InitializePspace(m)
  \/ \E w \in 0..Warriors, addr \in 0..PspaceSize, value \in {1, CoreSize} :
       WritePspace(w, addr, value)
  \/ \E w \in 0..Warriors, addr \in 0..PspaceSize : ReadPspace(w, addr)
  \/ \E w \in 0..Warriors : Step(w)
  \/ \E cycles \in 0..MaxCycles, wr \in 0..1 : Run(cycles, wr)
  \/ RunWhile
  \/ RunFor

Spec == Init /\ [][Next]_vars

\* ------------------------------------------------------------------------
\* FairSpec: calls of run on loaded battles.  The core holds any arrangement
\* of a few programs and each warrior has one of a few queues, as write_core
\* and replace_process_queue leave them.
\* ------------------------------------------------------------------------
BattleCells ==
  { CompleteInstruction(DefaultInstruction, 0, 0),
    CompleteInstruction(Imp, 0, 1),
    CompleteInstruction(Instruction("Spl", "B", "Direct", "Direct"), 0, 0) }

BattleQueues == { << >>, << 0 >>, << 1, 0 >> }

BattleInit ==
  /\ core \in [0..(CoreSize - 1) -> BattleCells]
  /\ pq \in [WarriorIds -> BattleQueues]
  /\ pspace = PSpace_new
  /\ run = RunIdle
  /\ ret = [err |-> "", val |-> << >>]
  /\ setup = 0

BattleNext ==
  \/ \E cycles \in 0..MaxCycles, wr \in 0..1 : Run(cycles, wr)
  \/ RunWhile
  \/ RunFor

\* run is sequential code that the caller waits for: once entered, its loop
\* keeps taking its next step
FairSpec == BattleInit /\ [][BattleNext]_vars /\ WF_vars(RunWhile \/ RunFor)

\* ------------------------------------------------------------------------
\* StepSpec: one warrior whose single process is about to execute an
\* arbitrary instruction on an arbitrary core.  Every such state is what
\* write_core, initialize_pspace and replace_process_queue leave behind.
\* ------------------------------------------------------------------------
\* the instruction under test sits in the last cell, so pc + 1 wraps
StepPc == CoreSize - 1

Fields == 0..(CoreSize - 1)

\* every pair of addressing modes on Mov.I, every opcode and modifier on
\* direct operands
StepInstructions ==
  { Instruction("Mov", "I", AddrMode[x], AddrMode[y]) :
      x \in 1..Len(AddrMode), y \in 1..Len(AddrMode) }
  \cup
  { Instruction(Opcode[o], Modifier[m], "Direct", "Direct") :
      o \in 1..Len(Opcode), m \in 1..Len(Modifier) }

\* the cells pc + 1 and pc + 2 carry arbitrary fields, any further cell is
\* the default cell
LoadedCore(i, f0, f1, f2) ==
  [k \in 0..(CoreSize - 1) |->
     IF k = StepPc THEN CompleteInstruction(i, f0[1], f0[2])
     ELSE IF k = (StepPc + 1) % CoreSize
     THEN CompleteInstruction(DefaultInstruction, f1[1], f1[2])
     ELSE IF k = (StepPc + 2) % CoreSize
     THEN CompleteInstruction(DefaultInstruction, f2[1], f2[2])
     ELSE CompleteInstruction(DefaultInstruction, 0, 0)]

\* the instructions of StepInstructions on every choice of fields, and every
\* instruction on four choices of fields
StepInit ==
  /\ \/ \E i \in StepInstructions, f0 \in Fields \X Fields,
           f1 \in Fields \X Fields, f2 \in Fields \X Fields :
          core = LoadedCore(i, f0, f1, f2)
     \/ \E i \in AllInstructions, f0 \in { << 1, 2 >>, << 0, 0 >> },
           f1 \in { << 1, 2 >>, << 0, 0 >> } :
          core = LoadedCore(i, f0, f1, << 2, 1 >>)
  /\ pq = [ProcessQueueSet_new EXCEPT ![0] = << StepPc >>]
  /\ pspace = initialize_pspace(PSpace_new, << << 0, 0 >> >>).pspace
  /\ run = RunIdle
  /\ ret = [err |-> "", val |-> << >>]
  /\ setup = 0

StepNext == \E w \in WarriorIds : Step(w)

StepSpec == StepInit /\ [][StepNext]_vars

\* ------------------------------------------------------------------------
\* ImpSpec: the imp Mov.I $0, $1 at address 0 of a default core, one warrior
\* with queue [0], and one call of run on it
\* ------------------------------------------------------------------------
ImpCore ==
  [k \in 0..(CoreSize - 1) |->
     IF k = 0 THEN CompleteInstruction(Imp, 0, 1)
     ELSE CompleteInstruction(DefaultInstruction, 0, 0)]

ImpQueues(w) == [v \in WarriorIds |-> IF v = w THEN << 0 >> ELSE << >>]

ImpLoaded == core = ImpCore /\ \E w \in WarriorIds : pq = ImpQueues(w)

ImpInit ==
  /\ ImpLoaded
  /\ pspace = PSpace_new
  /\ run = RunIdle
  /\ ret = [err |-> "", val |-> << >>]
  /\ setup = 0

\* enough cycles for the imp to go round the core twice
ImpCycles == 2 * CoreSize

ImpNext ==
  \/ ImpLoaded /\ \E cycles \in 0..ImpCycles, wr \in 0..1 : Run(cycles, wr)
  \/ RunWhile
  \/ RunFor

ImpSpec == ImpInit /\ [][ImpNext]_vars

\* ------------------------------------------------------------------------
\* SplSpec: a core filled with one Spl.B cell with direct operands, one
\* warrior with queue [0], and one call of run on it
\* ------------------------------------------------------------------------
SplCores ==
  { [k \in 0..(CoreSize - 1) |->
       CompleteInstruction(Instruction("Spl", "B", "Direct", "Direct"), fa, 0)] :
      fa \in Fields }

SplLoaded == core \in SplCores /\ \E w \in WarriorIds : pq = ImpQueues(w)

SplInit ==
  /\ SplLoaded
  /\ pspace = PSpace_new
  /\ run = RunIdle
  /\ ret = [err |-> "", val |-> << >>]
  /\ setup = 0

SplNext ==
  \/ SplLoaded /\ \E cycles \in 0..ImpCycles, wr \in 0..1 : Run(cycles, wr)
  \/ RunWhile
  \/ RunFor

SplSpec == SplInit /\ [][SplNext]_vars

\* Dwarf in a core of DwarfSize cells: Dat.F #0, #0; Add.AB #4, $-1;
\* Mov.AB #0, @-2; Jmp.A $-2, #0 at the addresses 0 to 3, default cells
\* elsewhere but for the b_field of cell 4, which is 0 or 1; warrior 0 starts
\* at address 1
DwarfSize == 8

DwarfCore(b4) ==
  [k \in 0..(DwarfSize - 1) |->
     CASE k = 1 -> CompleteInstruction(
                     Instruction("Add", "AB", "Immediate", "Direct"),
                     4, DwarfSize - 1)
       [] k = 2 -> CompleteInstruction(
                     Instruction("Mov", "AB", "Immediate", "IndirectB"),
                     0, DwarfSize - 2)
       [] k = 3 -> CompleteInstruction(
                     Instruction("Jmp", "A", "Direct", "Immediate"),
                     DwarfSize - 2, 0)
       [] k = 4 -> CompleteInstruction(DefaultInstruction, 0, b4)
       [] OTHER -> CompleteInstruction(DefaultInstruction, 0, 0)]

DwarfLoaded ==
  /\ \E b4 \in 0..1 : core = DwarfCore(b4)
  /\ pq = [w \in WarriorIds |-> IF w = 0 THEN << 1 >> ELSE << >>]

DwarfInit ==
  /\ DwarfLoaded
  /\ pspace = PSpace_new
  /\ run = RunIdle
  /\ ret = [err |-> "", val |-> << >>]
  /\ setup = 0

DwarfCycles == DwarfSize + 4

DwarfNext ==
  \/ DwarfLoaded /\ \E cycles \in 0..DwarfCycles : Run(cycles, 0)
  \/ RunWhile
  \/ RunFor

DwarfSpec == DwarfInit /\ [][DwarfNext]_vars

\* Emulator::new as a function of its parameters. CoreAddr is a u32 in the
\* source; the model gives it AddrBits bits, so that CoreAddr_MAX, the
\* largest value of the type, and half the range of the type plus one are
\* both small. The result carries the pspace_size the PSPACE store is built
\* with.
new(core_size, pspace_size, warriors, processes) ==
  IF core_size > CoreAddr_MAX \/ pspace_size > core_size
  THEN [err |-> "InvalidParam", core |-> << >>, pq |-> << >>,
        pspace |-> PSpace_new]
  ELSE [err |-> "",
        core |-> [k \in 0..(core_size - 1) |->
                    CompleteInstruction(DefaultInstruction, 0, 0)],
        pq |-> [w \in 0..(warriors - 1) |-> << >>],
        pspace |-> [pspace_size |-> pspace_size] @@ PSpace_new]

\* no emulator yet
NewInit ==
  /\ core = << >>
  /\ pq = << >>
  /\ pspace = PSpace_new
  /\ run = RunIdle
  /\ ret = [err |-> "", val |-> << >>]
  /\ setup = 0

New(core_size, pspace_size, warriors, processes) ==
  /\ setup = 0
  /\ \E r \in { new(core_size, pspace_size, warriors, processes) } :
       /\ core' = r.core /\ pq' = r.pq /\ pspace' = r.pspace
       /\ ret' = [err |-> r.err, val |-> << >>]
  /\ setup' = 1
  /\ UNCHANGED run

SizeInputs == 0..(CoreAddr_MAX + 2)

NewNext ==
  \E core_size \in SizeInputs, pspace_size \in SizeInputs,
     warriors \in 1..Warriors, processes \in 1..Processes :
    New(core_size, pspace_size, warriors, processes)

NewSpec == NewInit /\ [][NewNext]_vars

\* codec round trips through the API: the emulator starts either with any of
\* the instructions in cell 0 or with the caller holding a triple whose
\* bytecode has any valid byte, the first invalid one or the largest one in
\* each of its four places (127 in the first place: the bytecodes from 2^31
\* on are left out); read_core encodes a cell, write_core decodes the
\* triple the caller holds into cell 1
ByteInputs(enum, largest) == 0..Len(enum) \cup { largest }

CodecInit ==
  /\ \/ /\ \E i \in AllInstructions :
             core = [a \in 0..(CoreSize - 1) |->
                       CompleteInstruction(
                         IF a = 0 THEN i ELSE DefaultInstruction, 0, 0)]
        /\ ret = [err |-> "", val |-> << >>]
     \/ /\ core = [a \in 0..(CoreSize - 1) |->
                     CompleteInstruction(DefaultInstruction, 0, 0)]
        /\ \E o \in ByteInputs(Opcode, 127), m \in ByteInputs(Modifier, 255),
              x \in ByteInputs(AddrMode, 255),
              y \in ByteInputs(AddrMode, 255) :
             ret = [err |-> "",
                    val |-> << o * 16777216 + m * 65536 + x * 256 + y,
                               0, 0 >>]
  /\ pq = ProcessQueueSet_new
  /\ pspace = PSpace_new
  /\ run = RunIdle
  /\ setup = 0

CodecNext ==
  \/ \E addr \in 0..1 : ReadCore(addr)
  \/ Len(ret.val) = 3 /\ WriteCore(1, ret.val[1], ret.val[2], ret.val[3])

CodecSpec == CodecInit /\ [][CodecNext]_vars

\* PSPACE programs: the first two cells hold Stp.AB or Ldp.AB with immediate
\* operands (the instruction is its own A and B operand), the last a Dat;
\* warrior 0 starts at cell 0, warrior 1 at cell 1, and the PSPACE is the
\* one initialize_pspace builds from a valid map
PspaceCells ==
  { CompleteInstruction(Instruction(op, "AB", "Immediate", "Immediate"),
                        f[1], f[2]) :
      op \in {"Stp", "Ldp"},
      f \in { << 1, 0 >>, << 1, 1 >>, << 2, 1 >>, << 0, 1 >> } }

PspaceInit ==
  /\ \E c0 \in PspaceCells, c1 \in PspaceCells :
       core = [i \in 0..(CoreSize - 1) |->
                 IF i = 0 THEN c0
                 ELSE IF i = 1 THEN c1
                 ELSE CompleteInstruction(DefaultInstruction, 0, 0)]
  /\ pq = [w \in WarriorIds |-> << w >>]
  /\ \E m \in PspaceMapInputs :
       \E r \in { initialize_pspace(PSpace_new, m) } :
         r.err = "" /\ pspace = r.pspace
  /\ run = RunIdle
  /\ ret = [err |-> "", val |-> << >>]
  /\ setup = 0

PspaceNext ==
  \/ \E w \in 0..Warriors, addr \in 0..PspaceSize, value \in {1, CoreSize} :
       WritePspace(w, addr, value)
  \/ \E w \in 0..Warriors : Step(w)

PspaceSpec == PspaceInit /\ [][PspaceNext]_vars

\* ------------------------------------------------------------------------
\* properties
\* ------------------------------------------------------------------------
FieldsInRange ==
  \A addr \in 0..(CoreSize - 1) :
    /\ core[addr].a_field \in 0..(CoreSize - 1)
    /\ core[addr].b_field \in 0..(CoreSize - 1)

\* warrior w executes one instruction in this transition, through step or
\* through the for loop of run
Executes(w) ==
  \/ Step(w)
  \/ /\ run.pc = "for" /\ run.idx <= Len(run.snapshot)
     /\ run.snapshot[run.idx] = w
     /\ RunFor

\* C1: starting from a core whose fields are all below the core size, after
\* any sequence of steps, whatever the opcode, the modifier and the pair of
\* addressing modes of the instructions executed, the a_field and the
\* b_field of every cell are below the core size.
C1_FieldsBelowCoreSize == FieldsInRange

\* a Mov.I with a predecrement A-operand and a postincrement B-operand has
\* executed, and a field holds the largest value: a decrement has wrapped
C1_Witness ==
  /\ ret = [err |-> "", val |-> << StepPc >>]
  /\ core[StepPc].instr = Instruction("Mov", "I", "PredecA", "PostincB")
  /\ \E k \in 0..(CoreSize - 1) : core[k].a_field = CoreSize - 1

\* C2: no process queue is ever longer than `processes`; a Spl executed by a
\* warrior whose queue holds `processes` entries returns no error, and its
\* second push (the jump target) is dropped: the queue is the old tail
\* followed by pc + 1.
C2_QueueBounded ==
  /\ [](\A w \in WarriorIds : Len(pq[w]) <= Processes)
  /\ [][\A w \in WarriorIds :
          ( /\ Len(pq[w]) = Processes
            /\ core[Head(pq[w])].instr.opcode = "Spl"
            /\ FieldsInRange
            /\ Executes(w) )
          => /\ pq'[w] = Append(Tail(pq[w]), offset(Head(pq[w]), 1, CoreSize))
             /\ \/ run.pc = "idle" /\ ret'.err = ""
                \/ run.pc = "for" /\ run'.pc = "for"]_vars

\* a Spl has been stepped by a warrior whose queue was full, and it is full
\* again: the tail of the old queue followed by the next pc only
C2_Witness ==
  /\ ret = [err |-> "", val |-> << 0 >>]
  /\ core[0].instr.opcode = "Spl"
  /\ pq[0] = << 1, 1 >>
  /\ Len(pq[0]) = Processes

\* the warriors with a non-empty queue, in ascending order of warrior id
IsActiveList(list, queues) ==
  /\ \A i \in 1..Len(list) : \A j \in 1..Len(list) : i < j => list[i] < list[j]
  /\ { list[i] : i \in 1..Len(list) } = { w \in WarriorIds : queues[w] # << >> }

RunCondition ==
  /\ run.cycles_executed < run.cycles
  /\ Cardinality({ w \in WarriorIds : pq[w] # << >> }) > run.warriors_remaining

\* C3: a cycle of run starts by capturing the warriors whose queue is not
\* empty, in ascending order of id.  Until the cycle ends the captured list
\* does not change; its members take their turns in the order of the list,
\* one position per turn; at its turn a warrior's queue is not empty and it
\* executes the instruction at the head of it, no other warrior's queue
\* changes.  The cycle ends only after the turn of the last member, unless a
\* step returns an error, which ends run.
C3_CycleSnapshot ==
  [][ /\ (run.pc = "while" /\ run'.pc = "for")
         => /\ IsActiveList(run'.snapshot, pq)
            /\ run'.idx = 1
      /\ (run.pc = "for" /\ run.idx <= Len(run.snapshot))
         => /\ pq[run.snapshot[run.idx]] # << >>
            /\ \E r \in { step_emulator(Head(pq[run.snapshot[run.idx]]),
                            run.snapshot[run.idx], core,
                            [pq EXCEPT ![run.snapshot[run.idx]] = Tail(@)],
                            pspace) } :
                 core' = r.core /\ pq' = r.pq /\ pspace' = r.pspace
            /\ \A v \in WarriorIds \ { run.snapshot[run.idx] } : pq'[v] = pq[v]
            /\ \/ run' = [run EXCEPT !.idx = @ + 1]
               \/ run'.pc = "idle" /\ ret'.err # ""
      /\ (run.pc = "for" /\ run.idx > Len(run.snapshot))
         => /\ run.idx = Len(run.snapshot) + 1
            /\ run'.pc = "while"
            /\ run'.cycles_executed = run.cycles_executed + 1
            /\ UNCHANGED << core, pq, pspace >> ]_vars

\* the first warrior of the captured list has emptied its queue during the
\* cycle and the second one is about to take its turn
C3_Witness ==
  /\ run.pc = "for"
  /\ run.snapshot = << 0, 1 >>
  /\ run.idx = 2
  /\ pq[0] = << >>
  /\ pq[1] # << >>

\* C4: a call of run returns; cycles_executed never exceeds the cycles
\* asked for; a cycle starts only when cycles_executed < cycles and more
\* than warriors_remaining warriors are active; run returns
\* Ok(cycles_executed) only when that condition is false, leaving core,
\* queues and PSPACE as they are, and with cycles_executed = 0 if it is false
\* on entry.
C4_RunTerminates ==
  /\ [](run.cycles_executed <= run.cycles)
  /\ [][ /\ (run.pc = "while" /\ run'.pc = "for") => RunCondition
         /\ (run.pc = "while" /\ run'.pc = "idle")
            => /\ ~RunCondition
               /\ ret' = [err |-> "", val |-> << run.cycles_executed >>]
               /\ \/ run.cycles_executed = run.cycles
                  \/ Len(active_warrior_set(pq')) <= run.warriors_remaining
               /\ UNCHANGED << core, pq, pspace >>
         /\ (run.pc = "idle" /\ run'.pc = "while")
            => run'.cycles_executed = 0 /\ UNCHANGED << core, pq, pspace >>
         /\ (run.pc = "while" /\ run.cycles_executed = 0 /\ ~RunCondition)
            => /\ run'.pc = "idle"
               /\ ret' = [err |-> "", val |-> << 0 >>]
               /\ UNCHANGED << core, pq, pspace >> ]_vars
  /\ (run.pc # "idle") ~> (run.pc = "idle")

\* run is about to return because the cycles asked for are done, with more
\* than warriors_remaining warriors still active
C4_Witness ==
  /\ run.pc = "while"
  /\ run.cycles > 0
  /\ run.cycles_executed = run.cycles
  /\ Len(active_warrior_set(pq)) > run.warriors_remaining

\* C5: step(w) of a warrior whose queue is empty returns None and leaves
\* core, queues and PSPACE as they are.  Otherwise the head pc of w's queue
\* is removed and the rest of the queue is kept in front of whatever the
\* instruction pushes, no other queue changes, core, queues and PSPACE are
\* those that executing the instruction at pc as w yields from the queue
\* without its head, and the call returns Some(pc), or the error of the
\* instruction.
C5_StepPopsHead ==
  [][\A w \in WarriorIds :
       Step(w) =>
         IF pq[w] = << >>
         THEN /\ ret' = [err |-> "", val |-> << >>]
              /\ UNCHANGED << core, pq, pspace >>
         ELSE /\ Len(pq'[w]) >= Len(pq[w]) - 1
              /\ SubSeq(pq'[w], 1, Len(pq[w]) - 1) = Tail(pq[w])
              /\ \A v \in WarriorIds \ { w } : pq'[v] = pq[v]
              /\ \E r \in { step_emulator(Head(pq[w]), w, core,
                              [pq EXCEPT ![w] = Tail(@)], pspace) } :
                   /\ core' = r.core /\ pq' = r.pq /\ pspace' = r.pspace
                   /\ ret'.err = r.err
              /\ \/ ret' = [err |-> "", val |-> << Head(pq[w]) >>]
                 \/ ret'.err # "" /\ ret'.val = << >>]_vars

\* a step has returned Some(pc) for the pc that was the head of the queue,
\* and the queue now holds the next pc only
C5_Witness ==
  /\ ret = [err |-> "", val |-> << StepPc >>]
  /\ pq[0] = << (StepPc + 1) % CoreSize >>
  /\ core[StepPc].instr.opcode = "Nop"

\* C6: after a successful reset_core(x, a, b), read_core(k) is (x, a, b) for
\* every address k, every process queue is empty and so is
\* active_warrior_set(), and read_pspace fails for every warrior and every
\* location.
C6_ResetCore ==
  [][\A insn \in InsnInputs, f \in FieldInputs :
       (ResetCore(insn, f[1], f[2]) /\ ret'.err = "")
       => /\ \A k \in 0..(CoreSize - 1) :
               read_core(core', k) = << << insn, f[1], f[2] >> >>
          /\ \A w \in WarriorIds : read_process_queue(pq', w) = << << >> >>
          /\ active_warrior_set(pq') = << >>
          /\ \A w \in WarriorIds, addr \in 0..(PspaceSize - 1) :
               read_pspace(pspace', w, addr) = << >>]_vars

\* reset_core has filled the core with Mov.I $1, $0, which no other call
\* sequence within the setup budget can do
C6_Witness ==
  /\ \A k \in 0..(CoreSize - 1) : core[k] = CompleteInstruction(Imp, 1, 0)
  /\ ret.err = ""
  /\ pspace = PSpace_new
  /\ \A w \in WarriorIds : pq[w] = << >>

\* C7: write_core with an a_field or b_field that is not below the core size
\* returns InvalidParam and leaves the core unchanged; so does reset_core
\* with such an initial_a or initial_b, or with a bytecode that does not
\* decode, leaving queues and PSPACE unchanged too.
C7_FieldsValidated ==
  [][\A insn \in InsnInputs, f \in FieldInputs :
       /\ \A addr \in AddrInputs :
            ( /\ WriteCore(addr, insn, f[1], f[2])
              /\ ~(f[1] < CoreSize /\ f[2] < CoreSize) )
            => ret'.err = "InvalidParam" /\ core' = core
       /\ ( /\ ResetCore(insn, f[1], f[2])
            /\ \/ ~(f[1] < CoreSize /\ f[2] < CoreSize)
               \/ insn = InvalidBytecode )
          => ret'.err = "InvalidParam" /\ UNCHANGED << core, pq, pspace >>
    ]_vars

\* a cell holds a field equal to the core size after a call that returned Ok
C7_Witness ==
  /\ ret.err = ""
  /\ \E k \in 0..(CoreSize - 1) : core[k].a_field = CoreSize

\* C8: k cycles after run is called on the loaded imp, the imp's warrior has
\* the queue [k mod N], the cells 0 .. min(k, N - 1) are Mov.I $0, $1 and
\* the cells after them are still the default cell, no other warrior has a
\* process.
C8_Imp ==
  run.pc = "while" =>
    /\ \E w \in WarriorIds :
         pq = [v \in WarriorIds |->
                 IF v = w THEN << run.cycles_executed % CoreSize >> ELSE << >>]
    /\ \A j \in 0..(CoreSize - 1) :
         core[j] = IF j <= run.cycles_executed
                   THEN CompleteInstruction(Imp, 0, 1)
                   ELSE CompleteInstruction(DefaultInstruction, 0, 0)

\* N cycles are done: every cell is the imp and the queue is [0] again
C8_Witness ==
  /\ run.pc = "while"
  /\ run.cycles_executed = CoreSize
  /\ pq[0] = << 0 >>
  /\ \A j \in 0..(CoreSize - 1) : core[j] = CompleteInstruction(Imp, 0, 1)

\* C9: a Mov.F leaves the instruction word of its B target as it is and sets
\* the target's a_field to the A snapshot's a_field and its b_field to the A
\* snapshot's b_field; a Mov.X sets the target's b_field to the A snapshot's
\* a_field and its a_field to the A snapshot's b_field.
C9_MovTwoFields ==
  [][\A w \in WarriorIds :
       ( /\ Step(w) /\ pq[w] # << >>
         /\ core[Head(pq[w])].instr.opcode = "Mov"
         /\ core[Head(pq[w])].instr.modifier \in {"F", "X"} )
       => \E ev \in { evaluate(Head(pq[w]), core) } :
            /\ ev.err = ""
            /\ core'[ev.regs.b.idx].instr = ev.core[ev.regs.b.idx].instr
            /\ IF core[Head(pq[w])].instr.modifier = "F"
               THEN /\ core'[ev.regs.b.idx].a_field = ev.regs.a.a_field
                    /\ core'[ev.regs.b.idx].b_field = ev.regs.a.b_field
               ELSE /\ core'[ev.regs.b.idx].b_field = ev.regs.a.a_field
                    /\ core'[ev.regs.b.idx].a_field = ev.regs.a.b_field]_vars

\* a Mov.F $1, $2 has executed: its B target has the a_field of its A
\* operand, but not its b_field
C9_Witness ==
  /\ ret = [err |-> "", val |-> << StepPc >>]
  /\ core[StepPc] =
       CompleteInstruction(Instruction("Mov", "F", "Direct", "Direct"), 1, 2)
  /\ core[(StepPc + 2) % CoreSize].a_field = core[(StepPc + 1) % CoreSize].a_field
  /\ core[(StepPc + 2) % CoreSize].b_field # core[(StepPc + 1) % CoreSize].b_field

\* the << destination, source >> pairs of a modifier: the field of the B
\* target written and the field of the A snapshot that divides it
DivDests(modifier) ==
  CASE modifier = "A" -> { << "a", "a" >> }
    [] modifier = "B" -> { << "b", "b" >> }
    [] modifier = "AB" -> { << "b", "a" >> }
    [] modifier = "BA" -> { << "a", "b" >> }
    [] modifier \in {"F", "I"} -> { << "a", "a" >>, << "b", "b" >> }
    [] modifier = "X" -> { << "b", "a" >>, << "a", "b" >> }

FieldOf(cell, f) == IF f = "a" THEN cell.a_field ELSE cell.b_field

Quotient(opcode, lhs, rhs) == IF opcode = "Div" THEN lhs \div rhs ELSE lhs % rhs

\* C10: a Div or Mod returns no error and, for each destination field of
\* its modifier, sets that field of the B target to the quotient or the
\* remainder of the B snapshot's field by its own divisor if the divisor is
\* not zero, and leaves it as it is if the divisor is zero; nothing else in
\* the core changes.  pc + 1 is enqueued if no divisor of the modifier is
\* zero, and nothing is enqueued otherwise: a warrior whose only process
\* divides by zero is not active afterwards.
C10_DivMod ==
  [][\A w \in WarriorIds :
       ( /\ Step(w) /\ pq[w] # << >>
         /\ core[Head(pq[w])].instr.opcode \in {"Div", "Mod"} )
       => \E ev \in { evaluate(Head(pq[w]), core) },
             dests \in { DivDests(core[Head(pq[w])].instr.modifier) } :
            /\ ev.err = "" /\ ret'.err = ""
            /\ \A d \in dests :
                 FieldOf(core'[ev.regs.b.idx], d[1]) =
                   IF FieldOf(ev.regs.a, d[2]) # 0
                   THEN Quotient(core[Head(pq[w])].instr.opcode,
                                 FieldOf(ev.regs.b, d[1]),
                                 FieldOf(ev.regs.a, d[2]))
                   ELSE FieldOf(ev.core[ev.regs.b.idx], d[1])
            /\ \A f \in {"a", "b"} \ { d[1] : d \in dests } :
                 FieldOf(core'[ev.regs.b.idx], f) =
                   FieldOf(ev.core[ev.regs.b.idx], f)
            /\ core'[ev.regs.b.idx].instr = ev.core[ev.regs.b.idx].instr
            /\ \A k \in 0..(CoreSize - 1) \ { ev.regs.b.idx } :
                 core'[k] = ev.core[k]
            /\ pq'[w] =
                 IF \A d \in dests : FieldOf(ev.regs.a, d[2]) # 0
                 THEN Append(Tail(pq[w]), (Head(pq[w]) + 1) % CoreSize)
                 ELSE Tail(pq[w])
            /\ ( /\ Len(pq[w]) = 1
                 /\ \E d \in dests : FieldOf(ev.regs.a, d[2]) = 0 )
               => \A i \in 1..Len(active_warrior_set(pq')) :
                    active_warrior_set(pq')[i] # w]_vars

\* a Div.F $1, $2 has executed with an A operand whose a_field is 0 and
\* whose b_field is 2: of the B target (1, 2) only the b_field was divided,
\* and the warrior has no process left
C10_Witness ==
  /\ ret = [err |-> "", val |-> << StepPc >>]
  /\ core[StepPc] =
       CompleteInstruction(Instruction("Div", "F", "Direct", "Direct"), 1, 2)
  /\ core[(StepPc + 1) % CoreSize].a_field = 0
  /\ core[(StepPc + 1) % CoreSize].b_field = 2
  /\ core[(StepPc + 2) % CoreSize].a_field = 1
  /\ core[(StepPc + 2) % CoreSize].b_field = 1
  /\ pq[0] = << >>

\* C11: a Spl appends pc + 1 first and the A target second, each only while
\* the queue holds fewer than `processes` entries: with processes - 1
\* entries left after the pop just pc + 1 is appended.  On a core filled
\* with Spl the queue of the one warrior holds min(k + 1, processes)
\* entries after k cycles and never more than `processes`.
C11_SplCap ==
  /\ [](\A w \in WarriorIds : Len(pq[w]) <= Processes)
  /\ [](run.pc = "while" =>
          \E w \in WarriorIds :
            /\ Len(pq[w]) = IF run.cycles_executed + 1 < Processes
                            THEN run.cycles_executed + 1 ELSE Processes
            /\ \A v \in WarriorIds \ { w } : pq[v] = << >>)
  /\ [][\A w \in WarriorIds :
          ( /\ Executes(w) /\ pq[w] # << >>
            /\ core[Head(pq[w])].instr.opcode = "Spl" )
          => pq'[w] =
               IF Len(pq[w]) - 1 <= Processes - 2
               THEN Tail(pq[w]) \o
                      << (Head(pq[w]) + 1) % CoreSize,
                         (Head(pq[w]) + core[Head(pq[w])].a_field) % CoreSize >>
               ELSE Tail(pq[w]) \o << (Head(pq[w]) + 1) % CoreSize >>]_vars

\* five cycles are done on the core filled with Spl.B $0, $0 and the queue is
\* full
C11_Witness ==
  /\ run.pc = "while"
  /\ run.cycles_executed = 5
  /\ Len(pq[0]) = Processes
  /\ \A k \in 0..(CoreSize - 1) :
       core[k] =
         CompleteInstruction(Instruction("Spl", "B", "Direct", "Direct"), 0, 0)

\* core c with the field that mode pre-decrements, in cell base, one lower
DecAt(c, base, mode) ==
  CASE mode = "PredecA" ->
         [c EXCEPT ![base].a_field = (@ + CoreSize - 1) % CoreSize]
    [] mode = "PredecB" ->
         [c EXCEPT ![base].b_field = (@ + CoreSize - 1) % CoreSize]
    [] OTHER -> c

\* core c with the field that mode post-increments, in cell base, one higher
IncAt(c, base, mode) ==
  CASE mode = "PostincA" -> [c EXCEPT ![base].a_field = (@ + 1) % CoreSize]
    [] mode = "PostincB" -> [c EXCEPT ![base].b_field = (@ + 1) % CoreSize]
    [] OTHER -> c

\* the target of an operand with the given field and mode of the
\* instruction at pc, its pointer read from the core `live`
TargetOf(live, pc, field, mode) ==
  CASE mode = "Immediate" -> pc
    [] mode = "Direct" -> (pc + field) % CoreSize
    [] mode \in {"IndirectA", "PredecA", "PostincA"} ->
         (((pc + field) % CoreSize)
            + live[(pc + field) % CoreSize].a_field) % CoreSize
    [] mode \in {"IndirectB", "PredecB", "PostincB"} ->
         (((pc + field) % CoreSize)
            + live[(pc + field) % CoreSize].b_field) % CoreSize

BaseA(c, pc) == (pc + c[pc].a_field) % CoreSize

BaseB(c, pc) == (pc + c[pc].b_field) % CoreSize

\* the core when the A target is resolved, and when the A operand is done
LiveA(c, pc) == DecAt(c, BaseA(c, pc), c[pc].instr.a_addr_mode)

AfterA(c, pc) == IncAt(LiveA(c, pc), BaseA(c, pc), c[pc].instr.a_addr_mode)

\* the core when the B target is resolved, and when the B operand is done
LiveB(c, pc) == DecAt(AfterA(c, pc), BaseB(c, pc), c[pc].instr.b_addr_mode)

AfterB(c, pc) == IncAt(LiveB(c, pc), BaseB(c, pc), c[pc].instr.b_addr_mode)

\* C12: for the instruction a warrior is about to execute, the evaluator's
\* A target is pc for Immediate, (pc + field) mod N for Direct, and base
\* plus the a_field (IndirectA, PredecA, PostincA) or the b_field
\* (IndirectB, PredecB, PostincB) of core[base] mod N otherwise, with
\* base = (pc + field) mod N taken from the instruction as it is before
\* any side effect and the pointer read after the operand's own
\* pre-decrement; the same holds for the B target on the core the A operand
\* leaves; both targets are below N.
C12_OperandTargets ==
  \A w \in WarriorIds :
    pq[w] # << >> =>
      \E ev \in { evaluate(Head(pq[w]), core) } :
        /\ ev.err = ""
        /\ ev.regs.a.idx =
             TargetOf(LiveA(core, Head(pq[w])), Head(pq[w]),
                      core[Head(pq[w])].a_field,
                      core[Head(pq[w])].instr.a_addr_mode)
        /\ ev.regs.b.idx =
             TargetOf(LiveB(core, Head(pq[w])), Head(pq[w]),
                      core[Head(pq[w])].b_field,
                      core[Head(pq[w])].instr.b_addr_mode)
        /\ ev.regs.a.idx \in 0..(CoreSize - 1)
        /\ ev.regs.b.idx \in 0..(CoreSize - 1)

\* a Mov.I with an immediate A operand whose field is not 0 and an indirect
\* B operand has executed
C12_Witness ==
  /\ ret = [err |-> "", val |-> << StepPc >>]
  /\ core[StepPc].instr = Instruction("Mov", "I", "Immediate", "IndirectB")
  /\ core[StepPc].a_field = 2
  /\ pq[0] = << (StepPc + 1) % CoreSize >>

\* C13: for an instruction whose A mode is PredecB, operand evaluation
\* leaves the b_field of core[(pc + a_field) mod N] one lower mod N unless
\* the B operand pre-decrements or post-increments the same field, the A
\* target is that cell's index plus the decremented value, and a B operand
\* with the same base that points through the b_field resolves its target
\* from the decremented field (decremented once more if the B mode is
\* PredecB too).
C13_PredecB ==
  \A w \in WarriorIds :
    (pq[w] # << >> /\ core[Head(pq[w])].instr.a_addr_mode = "PredecB") =>
      \E ev \in { evaluate(Head(pq[w]), core) },
         base \in { BaseA(core, Head(pq[w])) },
         b_mode \in { core[Head(pq[w])].instr.b_addr_mode } :
        \E dec \in { (core[base].b_field + CoreSize - 1) % CoreSize } :
          /\ ev.err = ""
          /\ ~(BaseB(core, Head(pq[w])) = base
               /\ b_mode \in {"PredecB", "PostincB"})
             => ev.core[base].b_field = dec
          /\ ev.regs.a.idx = (base + dec) % CoreSize
          /\ (BaseB(core, Head(pq[w])) = base
              /\ b_mode \in {"IndirectB", "PostincB"})
             => ev.regs.b.idx = (base + dec) % CoreSize
          /\ (BaseB(core, Head(pq[w])) = base /\ b_mode = "PredecB")
             => ev.regs.b.idx =
                  (base + ((dec + CoreSize - 1) % CoreSize)) % CoreSize

\* a Mov.I with A mode PredecB and B mode IndirectB on the same base has
\* executed, and the pointer it decremented holds the largest value
C13_Witness ==
  /\ ret = [err |-> "", val |-> << StepPc >>]
  /\ core[StepPc].instr = Instruction("Mov", "I", "PredecB", "IndirectB")
  /\ core[StepPc].a_field = 1
  /\ core[StepPc].b_field = 1
  /\ core[(StepPc + 1) % CoreSize].b_field = CoreSize - 1

\* C14: for an instruction whose A mode is PostincA, operand evaluation
\* leaves the a_field of core[(pc + a_field) mod N] one higher mod N unless
\* the B operand pre-decrements or post-increments the same field, while
\* the A target and the A snapshot are those of the core before the
\* increment; what a Mov writes to its B target comes from that snapshot.
C14_PostincA ==
  [][\A w \in WarriorIds :
       ( /\ Step(w) /\ pq[w] # << >>
         /\ core[Head(pq[w])].instr.a_addr_mode = "PostincA" )
       => \E ev \in { evaluate(Head(pq[w]), core) },
             base \in { BaseA(core, Head(pq[w])) },
             cur \in { core[Head(pq[w])].instr } :
            \E target \in { (base + core[base].a_field) % CoreSize } :
              /\ ev.err = ""
              /\ ~(BaseB(core, Head(pq[w])) = base
                   /\ cur.b_addr_mode \in {"PredecA", "PostincA"})
                 => ev.core[base].a_field =
                      (core[base].a_field + 1) % CoreSize
              /\ ev.regs.a = RegisterValue(target, core[target])
              /\ (cur.opcode = "Mov" /\ cur.modifier = "I")
                 => core'[ev.regs.b.idx] = core[target]
              /\ (cur.opcode = "Mov" /\ cur.modifier = "A")
                 => core'[ev.regs.b.idx].a_field = core[target].a_field]_vars

\* a Mov.A with A mode PostincA whose pointer cell is its own A target has
\* executed: the pointer was 0 and is 1 now, the B target got the 0
C14_Witness ==
  /\ ret = [err |-> "", val |-> << StepPc >>]
  /\ core[StepPc] =
       CompleteInstruction(Instruction("Mov", "A", "PostincA", "Direct"), 1, 2)
  /\ core[(StepPc + 1) % CoreSize].a_field = 1
  /\ core[(StepPc + 2) % CoreSize].a_field = 0

\* C15: stepping a Mov.A }0, }0 whose fields are both 0 resolves the A
\* operand to the instruction's own cell and raises its a_field to 1,
\* resolves the B operand through that 1 to the next cell and raises the
\* a_field to 2, writes the A snapshot's a_field, 0, to the a_field of the
\* next cell and leaves the queue [pc + 1].
C15_PostincAliasing ==
  [][\A w \in WarriorIds :
       ( /\ Step(w) /\ pq[w] # << >>
         /\ core[Head(pq[w])] =
              CompleteInstruction(
                Instruction("Mov", "A", "PostincA", "PostincA"), 0, 0) )
       => \E ev \in { evaluate(Head(pq[w]), core) },
             pc \in { Head(pq[w]) } :
            /\ ev.regs.a.idx = pc
            /\ ev.regs.a.a_field = 0
            /\ ev.regs.b.idx = (pc + 1) % CoreSize
            /\ ev.core[pc].a_field = 2
            /\ core'[pc].a_field = 2
            /\ core'[(pc + 1) % CoreSize].a_field = 0
            /\ \A k \in 0..(CoreSize - 1) :
                 /\ core'[k].instr = core[k].instr
                 /\ core'[k].b_field = core[k].b_field
                 /\ k \notin { pc, (pc + 1) % CoreSize }
                    => core'[k].a_field = core[k].a_field
            /\ pq'[w] = Tail(pq[w]) \o << (pc + 1) % CoreSize >>
            /\ ret' = [err |-> "", val |-> << pc >>]]_vars

\* the Mov.A }0, }0 has executed: its a_field is 2, the next cell's a_field
\* is 0 and the queue holds the next pc
C15_Witness ==
  /\ ret = [err |-> "", val |-> << StepPc >>]
  /\ core[StepPc] =
       CompleteInstruction(
         Instruction("Mov", "A", "PostincA", "PostincA"), 2, 0)
  /\ core[(StepPc + 1) % CoreSize].a_field = 0
  /\ core[(StepPc + 1) % CoreSize].b_field = 2
  /\ pq[0] = << (StepPc + 1) % CoreSize >>

\* the B-value of a conditional jump is zero: the field the modifier names,
\* or both fields for F, X and I
BValueZero(b, modifier) ==
  CASE modifier \in {"A", "BA"} -> b.a_field = 0
    [] modifier \in {"B", "AB"} -> b.b_field = 0
    [] OTHER -> b.a_field = 0 /\ b.b_field = 0

ValuesEqual(a, b, modifier) ==
  CASE modifier = "A" -> a.a_field = b.a_field
    [] modifier = "B" -> a.b_field = b.b_field
    [] modifier = "AB" -> a.a_field = b.b_field
    [] modifier = "BA" -> a.b_field = b.a_field
    [] modifier = "F" -> a.a_field = b.a_field /\ a.b_field = b.b_field
    [] modifier = "X" -> a.a_field = b.b_field /\ a.b_field = b.a_field
    [] modifier = "I" ->
         [instr |-> a.instr, a_field |-> a.a_field, b_field |-> a.b_field]
         = [instr |-> b.instr, a_field |-> b.a_field, b_field |-> b.b_field]

\* C17: a step of Seq or of Cmp enqueues pc + 2 if the A-value equals the
\* B-value under the modifier (modifier I: the whole cell, instruction
\* included, so that with the registers Dat.F $0, $0 and Dat.F #0, #0 the
\* handler enqueues pc + 1) and pc + 1 otherwise, and the step of the same core with the
\* opcode Seq and with the opcode Cmp leaves the same queue, the same
\* PSPACE, the same result and, but for that opcode, the same core.
C17_SeqCmp ==
  [][\A w \in WarriorIds :
       ( /\ Step(w) /\ pq[w] # << >>
         /\ core[Head(pq[w])].instr.opcode \in {"Seq", "Cmp"} )
       => \E ev \in { evaluate(Head(pq[w]), core) },
             pc \in { Head(pq[w]) } :
            \E other \in
                 { step(w, [core EXCEPT ![pc].instr.opcode =
                                   IF @ = "Seq" THEN "Cmp" ELSE "Seq"],
                        pq, pspace) } :
              /\ pq'[w] = Tail(pq[w]) \o
                   << IF ValuesEqual(ev.regs.a, ev.regs.b,
                                     core[pc].instr.modifier)
                      THEN (pc + 2) % CoreSize
                      ELSE (pc + 1) % CoreSize >>
              /\ core' = ev.core
              /\ dispatch([warrior_id |-> w, core_size |-> CoreSize,
                           pq |-> [pq EXCEPT ![w] = Tail(@)],
                           core |-> ev.core, pspace |-> pspace,
                           regs |->
                             [current |->
                                RegisterValue(pc,
                                  [core[pc] EXCEPT !.instr.modifier = "I"]),
                              a |-> RegisterValue(pc,
                                CompleteInstruction(
                                  Instruction("Dat", "F", "Direct", "Direct"),
                                  0, 0)),
                              b |-> RegisterValue(pc,
                                CompleteInstruction(
                                  Instruction("Dat", "F", "Immediate",
                                              "Immediate"), 0, 0))]]).pq[w]
                 = Tail(pq[w]) \o << (pc + 1) % CoreSize >>
              /\ other.pq = pq'
              /\ other.pspace = pspace'
              /\ other.err = ret'.err
              /\ other.val = ret'.val
              /\ other.core = [core' EXCEPT ![pc].instr.opcode =
                                 IF @ = "Seq" THEN "Cmp" ELSE "Seq"]]_vars

\* a Seq.I comparing itself with the next cell, whose two fields are the
\* same as its own but whose instruction is not, has executed without
\* skipping
C17_Witness ==
  /\ ret = [err |-> "", val |-> << StepPc >>]
  /\ core[StepPc] =
       CompleteInstruction(Instruction("Seq", "I", "Direct", "Direct"), 0, 1)
  /\ core[(StepPc + 1) % CoreSize] = CompleteInstruction(DefaultInstruction, 0, 1)
  /\ pq[0] = << (StepPc + 1) % CoreSize >>

\* C18: a step of Ldp by a warrior that has a PSPACE reads the PSPACE at
\* the source field reduced mod the PSPACE size (the A snapshot's a_field
\* for A and AB, its b_field otherwise), writes the value to the a_field of
\* the B target for A and BA and to its b_field otherwise, enqueues pc + 1
\* and reports no error, also when the source field is the PSPACE size or
\* more.
C18_LdpModulo ==
  [][\A w \in WarriorIds :
       ( /\ Step(w) /\ pq[w] # << >>
         /\ core[Head(pq[w])].instr.opcode = "Ldp"
         /\ w \in DOMAIN pspace.warrior_to_pin )
       => \E ev \in { evaluate(Head(pq[w]), core) },
             modifier \in { core[Head(pq[w])].instr.modifier } :
            \E value \in
                 { PSpace_read(pspace,
                               (IF modifier \in {"A", "AB"}
                                THEN ev.regs.a.a_field
                                ELSE ev.regs.a.b_field) % PspaceSize, w) } :
              /\ ret' = [err |-> "", val |-> << Head(pq[w]) >>]
              /\ value # << >>
              /\ core' = IF modifier \in {"A", "BA"}
                         THEN [ev.core EXCEPT
                                 ![ev.regs.b.idx].a_field = value[1]]
                         ELSE [ev.core EXCEPT
                                 ![ev.regs.b.idx].b_field = value[1]]
              /\ pq'[w] = Tail(pq[w]) \o << (Head(pq[w]) + 1) % CoreSize >>
              /\ pspace' = pspace]_vars

\* a Ldp.A whose A operand has the a_field PspaceSize has executed: the
\* step reported an InternalError, and the next pc is in the queue
C18_Witness ==
  /\ ret = [err |-> "InternalError", val |-> << >>]
  /\ core[StepPc] =
       CompleteInstruction(Instruction("Ldp", "A", "Direct", "Direct"), 1, 2)
  /\ core[(StepPc + 1) % CoreSize].a_field = PspaceSize
  /\ 0 \in DOMAIN pspace.warrior_to_pin
  /\ pq[0] = << (StepPc + 1) % CoreSize >>

\* v and w have a PSPACE and it is the same one
SamePin(ps, v, w) ==
  /\ v \in DOMAIN ps.warrior_to_pin
  /\ w \in DOMAIN ps.warrior_to_pin
  /\ ps.warrior_to_pin[v] = ps.warrior_to_pin[w]

\* what every warrior reads at every index after w wrote value at addr: the
\* value at addr for w itself and, unless addr is 0, for the warriors on
\* w's pin; what it read before everywhere else
WriteSeen(w, addr, value) ==
  \A v \in WarriorIds, a \in 0..(PspaceSize - 1) :
    read_pspace(pspace', v, a) =
      IF a = addr /\ (v = w \/ (addr # 0 /\ SamePin(pspace, v, w)))
      THEN << value >>
      ELSE read_pspace(pspace, v, a)

\* C19: two warriors on the same pin always read the same value at every
\* index from 1 on; a successful write, by write_pspace or by a Stp, is
\* read back by the writer, is read at an index from 1 on by every warrior
\* on the writer's pin, and changes nothing else: not index 0 of another
\* warrior, and nothing a warrior on another pin reads.
C19_PspaceSharing ==
  /\ [](\A v \in WarriorIds, w \in WarriorIds :
          SamePin(pspace, v, w) =>
            \A a \in 1..(PspaceSize - 1) :
              /\ read_pspace(pspace, v, a) # << >>
              /\ read_pspace(pspace, v, a) = read_pspace(pspace, w, a))
  /\ [][/\ \A w \in WarriorIds, addr \in 0..(PspaceSize - 1),
              value \in 0..(CoreSize - 1) :
              (WritePspace(w, addr, value) /\ ret'.err = "")
              => WriteSeen(w, addr, value)
        /\ \A w \in WarriorIds :
              ( /\ Step(w) /\ pq[w] # << >> /\ ret'.err = ""
                /\ core[Head(pq[w])].instr.opcode = "Stp"
                /\ core[Head(pq[w])].instr.modifier = "AB"
                /\ core[Head(pq[w])].instr.a_addr_mode = "Immediate"
                /\ core[Head(pq[w])].instr.b_addr_mode = "Immediate" )
              => WriteSeen(w, core[Head(pq[w])].b_field,
                           core[Head(pq[w])].a_field)]_vars

\* both warriors are on pin 0; warrior 0 has written at index 0 and at
\* index 1: warrior 1 reads the same at index 1 and still 0 at index 0
C19_Witness ==
  /\ SamePin(pspace, 0, 1)
  /\ read_pspace(pspace, 0, 0) = << 1 >>
  /\ read_pspace(pspace, 1, 0) = << 0 >>
  /\ read_pspace(pspace, 0, 1) = << 2 >>
  /\ read_pspace(pspace, 1, 1) = << 2 >>

\* C20: read_pspace and write_pspace called with an address that is the
\* PSPACE size or more, or for a warrior that has no PSPACE (at address 0
\* too), and write_pspace called with a value that is the core size or
\* more, return InvalidParam and leave the core, the queues, the PSPACE and
\* the run as they were.
C20_PspaceInvalidParam ==
  [][\A w \in 0..Warriors, addr \in 0..PspaceSize :
       /\ ( /\ ReadPspace(w, addr)
            /\ (addr >= PspaceSize \/ w \notin DOMAIN pspace.warrior_to_pin) )
          => /\ ret' = [err |-> "InvalidParam", val |-> << >>]
             /\ UNCHANGED << core, pq, pspace, run >>
       /\ \A value \in 0..CoreSize :
            ( /\ WritePspace(w, addr, value)
              /\ \/ addr >= PspaceSize
                 \/ w \notin DOMAIN pspace.warrior_to_pin
                 \/ value >= CoreSize )
            => /\ ret' = [err |-> "InvalidParam", val |-> << >>]
               /\ UNCHANGED << core, pq, pspace, run >>]_vars

\* warrior 0 has a PSPACE and warrior 1 has none, and a call was refused
\* with InvalidParam
C20_Witness ==
  /\ ret = [err |-> "InvalidParam", val |-> << >>]
  /\ 0 \in DOMAIN pspace.warrior_to_pin
  /\ 1 \notin DOMAIN pspace.warrior_to_pin
  /\ pspace.zero_index_values = (0 :> 0)
  /\ setup = 1

\* C21: replace_process_queue for a warrior w with a list longer than
\* Processes or holding an element that is CoreSize or more returns an
\* error and leaves every queue, the core, the PSPACE and the run as they
\* were; with any other list it succeeds, the queue of w is the list,
\* read_process_queue(w) returns it head first, every other queue, the
\* core, the PSPACE and the run are as they were, and after the empty list
\* w is not in active_warrior_set().
C21_ReplaceProcessQueue ==
  [][\A w \in WarriorIds, q \in QueueInputs :
       ReplaceProcessQueue(w, q)
       => IF \/ Len(q) > Processes
             \/ \E i \in 1..Len(q) : q[i] >= CoreSize
          THEN /\ ret'.err # ""
               /\ UNCHANGED << core, pq, pspace, run >>
          ELSE /\ ret' = [err |-> "", val |-> << >>]
               /\ pq'[w] = q
               /\ read_process_queue(pq', w) = << q >>
               /\ \A v \in WarriorIds \ { w } : pq'[v] = pq[v]
               /\ UNCHANGED << core, pspace, run >>
               /\ q = << >> =>
                    \A i \in 1..Len(active_warrior_set(pq')) :
                      active_warrior_set(pq')[i] # w]_vars

\* the queue of warrior 0 was replaced by [0, 1] in the first call made
C21_Witness ==
  /\ ret = [err |-> "", val |-> << >>]
  /\ pq[0] = << 0, 1 >>
  /\ pq[1] = << >>
  /\ setup = 1
  /\ run = RunIdle

\* C22: step, read_pspace, write_pspace, read_process_queue and
\* replace_process_queue called with the warrior id Warriors, and
\* initialize_pspace called with a map naming it, return InvalidParam and
\* leave the core, the queues, the PSPACE and the run as they were.
C22_UnknownWarrior ==
  [][\A w \in { Warriors } :
       /\ Step(w) => ret'.err = "InvalidParam"
       /\ \A addr \in 0..PspaceSize :
            /\ ReadPspace(w, addr) => ret'.err = "InvalidParam"
            /\ \A value \in {1, CoreSize} :
                 WritePspace(w, addr, value) => ret'.err = "InvalidParam"
       /\ \A m \in PspaceMapInputs :
            (InitializePspace(m) /\ \E i \in 1..Len(m) : m[i][2] = w)
            => ret'.err = "InvalidParam"
       /\ ReadProcessQueue(w) => ret'.err = "InvalidParam"
       /\ \A q \in QueueInputs :
            ReplaceProcessQueue(w, q) => ret'.err = "InvalidParam"
       /\ ( \/ Step(w) \/ ReadProcessQueue(w)
            \/ \E addr \in 0..PspaceSize : ReadPspace(w, addr)
            \/ \E addr \in 0..PspaceSize, value \in {1, CoreSize} :
                 WritePspace(w, addr, value)
            \/ \E m \in PspaceMapInputs :
                 InitializePspace(m) /\ \E i \in 1..Len(m) : m[i][2] = w
            \/ \E q \in QueueInputs : ReplaceProcessQueue(w, q) )
          => UNCHANGED << core, pq, pspace, run >>]_vars

\* read_process_queue was called on the new emulator with the warrior id
\* Warriors and returned an InternalError
C22_Witness ==
  /\ ret = [err |-> "InternalError", val |-> << >>]
  /\ setup = 0
  /\ run = RunIdle
  /\ pq = ProcessQueueSet_new
  /\ pspace = PSpace_new

\* each of the four bytes of the bytecode is the discriminant of a variant
BytesValid(b) ==
  /\ b \div 16777216 < Len(Opcode)
  /\ (b \div 65536) % 256 < Len(Modifier)
  /\ (b \div 256) % 256 < Len(AddrMode)
  /\ b % 256 < Len(AddrMode)

\* C23: the bytecode read_core returns for a cell decodes to the cell's
\* instruction (decode(encode(i)) = i); write_core of a bytecode succeeds
\* exactly if each of its four bytes is a valid variant, and then the
\* instruction it stores encodes to that bytecode (encode(decode(b)) = b);
\* the cell is one of the 19 * 7 * 8 * 8 instructions.
C23_CodecBijection ==
  [][/\ \A addr \in 0..1 :
          ReadCore(addr)
          => /\ ret'.err = ""
             /\ decode(ret'.val[1]) = << core[addr].instr >>
             /\ decode(encode(core[addr].instr)) = << core[addr].instr >>
     /\ (Len(ret.val) = 3 /\ WriteCore(1, ret.val[1], ret.val[2], ret.val[3]))
        => /\ ret'.err = "" <=> BytesValid(ret.val[1])
           /\ ret'.err = "" <=> decode(ret.val[1]) # << >>
           /\ ret'.err = ""
              => /\ decode(ret.val[1]) = << core'[1].instr >>
                 /\ encode(core'[1].instr) = ret.val[1]
                 /\ encode(decode(ret.val[1])[1]) = ret.val[1]
                 /\ core'[1].instr \in AllInstructions
           /\ ret'.err # "" => core' = core]_vars

\* the last instruction, Stp.I >, >, was read from cell 0 and written back
\* to cell 1
C23_Witness ==
  /\ core[0].instr = Instruction("Stp", "I", "PostincB", "PostincB")
  /\ core[1] = core[0]
  /\ ret = [err |-> "", val |-> << >>]
  /\ setup = 1
  /\ Cardinality(AllInstructions) = 8512

\* C24: Emulator::new returns InvalidParam when core_size is more than half
\* the range of the address type (2^31 for the 32-bit type) or pspace_size
\* is more than core_size; otherwise it returns an emulator whose core has
\* exactly core_size default cells, whose queues are all empty and in which
\* no warrior has a PSPACE.
C24_NewValidates ==
  [][\A core_size \in SizeInputs, pspace_size \in SizeInputs,
        warriors \in 1..Warriors, processes \in 1..Processes :
       New(core_size, pspace_size, warriors, processes)
       => IF core_size > 2 ^ (AddrBits - 1) \/ pspace_size > core_size
          THEN ret' = [err |-> "InvalidParam", val |-> << >>]
          ELSE /\ ret' = [err |-> "", val |-> << >>]
               /\ DOMAIN core' = 0..(core_size - 1)
               /\ \A k \in DOMAIN core' :
                    core'[k] = CompleteInstruction(DefaultInstruction, 0, 0)
               /\ DOMAIN pq' = 0..(warriors - 1)
               /\ \A w \in DOMAIN pq' : pq'[w] = << >>
               /\ pspace'.warrior_to_pin = << >>
               /\ pspace'.zero_index_values = << >>
               /\ pspace'.pin_to_pspace = << >>]_vars

\* Emulator::new has returned an emulator whose core has one cell more than
\* half the range of the address type
C24_Witness ==
  /\ ret = [err |-> "", val |-> << >>]
  /\ setup = 1
  /\ DOMAIN core = 0..(2 ^ (AddrBits - 1))
  /\ \A k \in DOMAIN core :
       core[k] = CompleteInstruction(DefaultInstruction, 0, 0)

\* C25, as the code has it: when 3 cycles of the Dwarf are done, cell 0 is
\* Dat.F #0, #4 (Add.AB adds to the b_field), the b_field of cell 4 is 0
\* and the rest of cell 4 is as it was (Mov.AB writes the b_field), and the
\* queue is [1]; when 4 cycles are done the Add has run a second time: cell
\* 0 is Dat.F #0, #8 and the queue is [2].
C25_Dwarf ==
  /\ (run.pc = "while" /\ run.cycles_executed = 3)
     => /\ core[0] = CompleteInstruction(DefaultInstruction, 0, 4)
        /\ core[4] = CompleteInstruction(DefaultInstruction, 0, 0)
        /\ \A k \in 1..3 : core[k] = DwarfCore(0)[k]
        /\ pq[0] = << 1 >>
  /\ (run.pc = "while" /\ run.cycles_executed = 4)
     => /\ core[0] = CompleteInstruction(DefaultInstruction, 0, 8 % DwarfSize)
        /\ core[4] = CompleteInstruction(DefaultInstruction, 0, 0)
        /\ pq[0] = << 2 >>

\* C25, as stated: when 4 cycles of the Dwarf are done, cell 0 is
\* Dat.F #4, #0, cell 4 is Dat.F #0, #0 and the queue is [1].
C25_DwarfAsStated ==
  (run.pc = "while" /\ run.cycles_executed = 4)
  => /\ core[0] = CompleteInstruction(DefaultInstruction, 4, 0)
     /\ core[4] = CompleteInstruction(DefaultInstruction, 0, 0)
     /\ pq[0] = << 1 >>

\* three cycles of a run of four are done on the Dwarf: the pointer is 4
\* and the process is back at the Add
C25_Witness ==
  /\ run.pc = "while"
  /\ run.cycles = 4
  /\ run.cycles_executed = 3
  /\ core[0].b_field = 4
  /\ pq[0] = << 1 >>

\* C26: inside a cycle the count of active warriors is not looked at: a
\* warrior of the captured list whose turn it is executes its head process
\* also when no more than warriors_remaining warriors are active, and the
\* cycle is counted only when the list is through; the count is compared
\* at the cycle boundary only, so that run returns the cycles executed
\* there, also with fewer than warriors_remaining warriors active, and a
\* call of run entered with no more than warriors_remaining warriors
\* active returns 0 with nothing changed.
C26_MutualDeath ==
  [][ /\ ( /\ run.pc = "for" /\ run.idx <= Len(run.snapshot)
           /\ Len(active_warrior_set(pq)) <= run.warriors_remaining )
         => \E w \in { run.snapshot[run.idx] } :
              /\ pq[w] # << >>
              /\ \E r \in { step(w, core, pq, pspace) } :
                   core' = r.core /\ pq' = r.pq /\ r.val = << Head(pq[w]) >>
              /\ run' = [run EXCEPT !.idx = @ + 1]
      /\ (run.pc = "for" /\ run'.pc = "while")
         => /\ run.idx = Len(run.snapshot) + 1
            /\ run'.cycles_executed = run.cycles_executed + 1
      /\ ( /\ run.pc = "while"
           /\ Len(active_warrior_set(pq)) <= run.warriors_remaining )
         => /\ run' = RunIdle
            /\ ret' = [err |-> "", val |-> << run.cycles_executed >>]
            /\ UNCHANGED << core, pq, pspace >>
      /\ ( /\ run.pc = "idle" /\ run'.pc = "while"
           /\ Len(active_warrior_set(pq)) <= run'.warriors_remaining )
         => /\ run'.cycles_executed = 0
            /\ UNCHANGED << core, pq, pspace >> ]_vars

\* two warriors, each with one process on a Dat, were active when the cycle
\* began; one cycle is done, both are dead, and run is about to return 1
\* with fewer than warriors_remaining = 1 warriors active
C26_Witness ==
  /\ run.pc = "while"
  /\ run.cycles_executed = 1
  /\ run.warriors_remaining = 1
  /\ active_warrior_set(pq) = << >>
  /\ \A k \in 0..(CoreSize - 1) :
       core[k] = CompleteInstruction(DefaultInstruction, 0, 0)

\* ---- two warriors executing queue and PSPACE instructions side by side ----

\* instructions that push (Spl twice, the others once or never), that write
\* the core, and that read and write PSPACE at index 0 and at index 1
FrameCells ==
  { CompleteInstruction(DefaultInstruction, 0, 0),
    CompleteInstruction(Imp, 0, 1),
    CompleteInstruction(Instruction("Spl", "B", "Direct", "Direct"), 0, 0),
    CompleteInstruction(Instruction("Stp", "AB", "Immediate", "Immediate"), 1, 0),
    CompleteInstruction(Instruction("Stp", "AB", "Immediate", "Immediate"), 2, 1),
    CompleteInstruction(Instruction("Ldp", "AB", "Immediate", "Immediate"), 1, 0) }

FrameInit ==
  /\ \E c0 \in FrameCells, c1 \in FrameCells :
       core = [i \in 0..(CoreSize - 1) |->
                 IF i = 0 THEN c0
                 ELSE IF i = 1 THEN c1
                 ELSE CompleteInstruction(DefaultInstruction, 0, 0)]
  /\ pq = [w \in WarriorIds |-> << w >>]
  /\ \E m \in PspaceMapInputs :
       \E r \in { initialize_pspace(PSpace_new, m) } :
         r.err = "" /\ pspace = r.pspace
  /\ run = RunIdle
  /\ ret = [err |-> "", val |-> << >>]
  /\ setup = 0

FrameNext ==
  \/ \E w \in 0..Warriors : Step(w)
  \/ \E cycles \in 1..MaxCycles : Run(cycles, 0)
  \/ RunWhile
  \/ RunFor

FrameSpec == FrameInit /\ [][FrameNext]_vars

\* C27: when warrior w executes an instruction, by step or inside a cycle of
\* run, the queue of every other warrior stays as it was and w's own queue
\* is its tail followed by at most two pushed addresses; in PSPACE the
\* assignment of pins stays as it was, the array of every pin other than
\* w's stays as it was and so does the index-0 value of every other warrior.
C27_Frame ==
  [][ \A w \in WarriorIds :
        Executes(w) =>
          /\ \A v \in WarriorIds \ { w } : pq'[v] = pq[v]
          /\ pq[w] = << >> => pq'[w] = << >>
          /\ pq[w] # << >> =>
               /\ Len(pq'[w]) >= Len(pq[w]) - 1
               /\ Len(pq'[w]) <= Len(pq[w]) - 1 + 2
               /\ SubSeq(pq'[w], 1, Len(pq[w]) - 1) = Tail(pq[w])
          /\ pspace'.warrior_to_pin = pspace.warrior_to_pin
          /\ DOMAIN pspace'.zero_index_values = DOMAIN pspace.zero_index_values
          /\ DOMAIN pspace'.pin_to_pspace = DOMAIN pspace.pin_to_pspace
          /\ \A v \in DOMAIN pspace.zero_index_values :
               v # w => pspace'.zero_index_values[v] =
                          pspace.zero_index_values[v]
          /\ \A pin \in DOMAIN pspace.pin_to_pspace :
               ( \/ w \notin DOMAIN pspace.warrior_to_pin
                 \/ pspace.warrior_to_pin[w] # pin )
               => pspace'.pin_to_pspace[pin] = pspace.pin_to_pspace[pin] ]_vars

\* warrior 1, on a pin of its own, has stored 2 at index 1 and moved on,
\* warrior 0 has split into two processes; warrior 0's PSPACE is untouched
C27_Witness ==
  /\ DOMAIN pspace.warrior_to_pin = WarriorIds
  /\ pspace.warrior_to_pin[0] # pspace.warrior_to_pin[1]
  /\ pspace.pin_to_pspace[pspace.warrior_to_pin[1]][1] = 2
  /\ pspace.pin_to_pspace[pspace.warrior_to_pin[0]][1] = 0
  /\ pspace.zero_index_values = [v \in WarriorIds |-> 0]
  /\ pq[0] = << 1, 0 >>
  /\ pq[1] = << 2 >>

\* ---- the loadfile parser ----

\* The text of a loadfile is a sequence of lexical items; blanks between
\* them are left out, every parser of a line skipping them (space0).
\*   "instr"  the text of a well-formed instruction, instr = << opcode,
\*            << modifier >> or << >> if the text has none, a_mode, b_mode >>
\*   "ORG", "PIN", "END"  the keyword, with the number that follows it in num
\*   ";"      the start of a comment
\*   "x"      text that no parser of a line accepts
\*   "\n"     a line ending
Item(kind, num, instr) == [kind |-> kind, num |-> num, instr |-> instr]

Eol == Item("\n", << >>, << >>)

ParseOptions(omit_modifiers, disallow_empty_warrior, must_consume_all) ==
  [omit_modifiers |-> omit_modifiers,
   disallow_empty_warrior |-> disallow_empty_warrior,
   must_consume_all |-> must_consume_all]

DEFAULT_OPTIONS == ParseOptions(FALSE, FALSE, FALSE)

\* a nom result: << >> for Err, << [leftover, value] >> for Ok
ParseOk(leftover, value) == << [leftover |-> leftover, value |-> value] >>

LineContent(kind, val) == [kind |-> kind, val |-> val]

\* the default table looking at the B mode before the A mode
default_modifiers_b_first(op, a_mode, b_mode) ==
  IF op \in {"Nop", "Dat"} THEN "F"
  ELSE IF op \in {"Mov", "Seq", "Sne", "Cmp"}
  THEN IF b_mode = "Immediate" THEN "B"
       ELSE IF a_mode = "Immediate" THEN "AB" ELSE "I"
  ELSE IF op \in {"Add", "Sub", "Mul", "Div", "Mod"}
  THEN IF b_mode = "Immediate" THEN "B"
       ELSE IF a_mode = "Immediate" THEN "AB" ELSE "F"
  ELSE IF op \in {"Slt", "Ldp", "Stp"}
  THEN IF a_mode = "Immediate" THEN "AB" ELSE "B"
  ELSE "B"

default_modifiers(op, a_mode, b_mode) ==
  IF op \in {"Nop", "Dat"} THEN "F"
  ELSE IF op \in {"Mov", "Seq", "Sne", "Cmp"}
  THEN IF a_mode = "Immediate" THEN "AB"
       ELSE IF b_mode = "Immediate" THEN "B" ELSE "I"
  ELSE IF op \in {"Add", "Sub", "Mul", "Div", "Mod"}
  THEN IF a_mode = "Immediate" THEN "AB"
       ELSE IF b_mode = "Immediate" THEN "B" ELSE "F"
  ELSE IF op \in {"Slt", "Ldp", "Stp"}
  THEN IF a_mode = "Immediate" THEN "AB" ELSE "B"
  ELSE "B"

\* opcode "." modifier mode number "," mode number
instr_94_line(input) ==
  IF /\ input # << >> /\ Head(input).kind = "instr"
     /\ Len(Head(input).instr[2]) = 1
  THEN ParseOk(Tail(input),
         CompleteInstruction(
           Instruction(Head(input).instr[1], Head(input).instr[2][1],
                       Head(input).instr[3], Head(input).instr[4]),
           Head(input).num[1], Head(input).num[2]))
  ELSE << >>

\* opcode mode number "," mode number, the modifier from the default table
instr_88_line(input) ==
  IF /\ input # << >> /\ Head(input).kind = "instr"
     /\ Head(input).instr[2] = << >>
  THEN ParseOk(Tail(input),
         CompleteInstruction(
           Instruction(Head(input).instr[1],
                       default_modifiers(Head(input).instr[1],
                                         Head(input).instr[3],
                                         Head(input).instr[4]),
                       Head(input).instr[3], Head(input).instr[4]),
           Head(input).num[1], Head(input).num[2]))
  ELSE << >>

\* what is left of the input from the next line ending on
RECURSIVE is_not_eol(_)
is_not_eol(input) ==
  IF input = << >> \/ Head(input).kind = "\n" THEN input
  ELSE is_not_eol(Tail(input))

comment_line(input) ==
  IF input # << >> /\ Head(input).kind = ";"
  THEN ParseOk(is_not_eol(Tail(input)), << >>)
  ELSE << >>

org_line(input) ==
  IF input # << >> /\ Head(input).kind = "ORG" /\ Head(input).num # << >>
  THEN ParseOk(Tail(input), Head(input).num[1])
  ELSE << >>

pin_line(input) ==
  IF input # << >> /\ Head(input).kind = "PIN" /\ Head(input).num # << >>
  THEN ParseOk(Tail(input), Head(input).num[1])
  ELSE << >>

\* end_line accepting END only when the line ends after it
end_line_anchored(input) ==
  IF /\ input # << >> /\ Head(input).kind = "END"
     /\ (Tail(input) = << >> \/ Head(Tail(input)).kind = "\n")
  THEN ParseOk(Tail(input), Head(input).num)
  ELSE << >>

\* "END", then a number or nothing; not anchored to the end of the line
end_line(input) ==
  IF input # << >> /\ Head(input).kind = "END"
  THEN ParseOk(Tail(input), Head(input).num)
  ELSE << >>

empty_line(input) == ParseOk(input, << >>)

\* terminated(parsed, alt((eof, eol)))
terminated(parsed) ==
  IF parsed = << >> THEN << >>
  ELSE IF parsed[1].leftover = << >> THEN parsed
  ELSE IF Head(parsed[1].leftover).kind = "\n"
  THEN ParseOk(Tail(parsed[1].leftover), parsed[1].value)
  ELSE << >>

\* map(parser, constructor)
LineOf(kind, parsed) ==
  IF parsed = << >> THEN << >>
  ELSE ParseOk(parsed[1].leftover, LineContent(kind, << parsed[1].value >>))

parse_line(input, omit_modifier) ==
  LET parse_instr == IF omit_modifier THEN instr_88_line(input)
                     ELSE instr_94_line(input)
      body_content_parser ==
        terminated(
          IF parse_instr # << >> THEN LineOf("Instruction", parse_instr)
          ELSE IF comment_line(input) # << >>
          THEN LineOf("Comment", comment_line(input))
          ELSE IF org_line(input) # << >> THEN LineOf("Org", org_line(input))
          ELSE IF pin_line(input) # << >> THEN LineOf("Pin", pin_line(input))
          ELSE LineOf("Empty", empty_line(input)))
      end_content_parser ==
        IF end_line(input) # << >>
        THEN ParseOk(end_line(input)[1].leftover,
                     LineContent("End", end_line(input)[1].value))
        ELSE IF input = << >> THEN ParseOk(input, LineContent("End", << >>))
        ELSE << >>
  IN  IF end_content_parser # << >> THEN end_content_parser
      ELSE body_content_parser

ParseEnd(err, input, instructions, start, pin) ==
  [err |-> err, input |-> input, instructions |-> instructions,
   start |-> start, pin |-> pin]

\* the loop of parse with an ORG, once seen, never replaced by a later ORG or
\* by the number of END
RECURSIVE parse_loop_first_start(_, _, _, _, _)
parse_loop_first_start(input, omit_modifiers, instructions, start, pin) ==
  LET line == parse_line(input, omit_modifiers)
  IN  IF line = << >> THEN ParseEnd(TRUE, input, instructions, start, pin)
      ELSE LET leftover == line[1].leftover
               e == line[1].value
               kept == IF start = << >> THEN e.val ELSE start
           IN  IF e.kind \in {"Empty", "Comment"}
               THEN parse_loop_first_start(leftover, omit_modifiers,
                                           instructions, start, pin)
               ELSE IF e.kind = "Pin"
               THEN parse_loop_first_start(leftover, omit_modifiers,
                                           instructions, start, e.val)
               ELSE IF e.kind = "Instruction"
               THEN parse_loop_first_start(leftover, omit_modifiers,
                                           Append(instructions, e.val[1]),
                                           start, pin)
               ELSE IF e.kind = "Org"
               THEN parse_loop_first_start(leftover, omit_modifiers,
                                           instructions, kept, pin)
               ELSE ParseEnd(FALSE, leftover, instructions, kept, pin)

\* the loop of parse: start and pin are << >> for None
RECURSIVE parse_loop(_, _, _, _, _)
parse_loop(input, omit_modifiers, instructions, start, pin) ==
  LET line == parse_line(input, omit_modifiers)
  IN  IF line = << >> THEN ParseEnd(TRUE, input, instructions, start, pin)
      ELSE LET leftover == line[1].leftover
               e == line[1].value
           IN  IF e.kind \in {"Empty", "Comment"}
               THEN parse_loop(leftover, omit_modifiers, instructions, start,
                               pin)
               ELSE IF e.kind = "Pin"
               THEN parse_loop(leftover, omit_modifiers, instructions, start,
                               e.val)
               ELSE IF e.kind = "Instruction"
               THEN parse_loop(leftover, omit_modifiers,
                               Append(instructions, e.val[1]), start, pin)
               ELSE IF e.kind = "Org"
               THEN parse_loop(leftover, omit_modifiers, instructions, e.val,
                               pin)
               ELSE IF e.val # << >>
               THEN ParseEnd(FALSE, leftover, instructions, e.val, pin)
               ELSE ParseEnd(FALSE, leftover, instructions, start, pin)

\* input.trim().is_empty()
trim_is_empty(input) == \A i \in 1..Len(input) : input[i].kind = "\n"

\* << >> for Err, << the RelaxedWarrior >> for Ok
parse(warrior, options) ==
  CHOOSE res \in
    { IF l.err THEN << >>
      ELSE IF options.must_consume_all /\ ~trim_is_empty(l.input) THEN << >>
      ELSE IF options.disallow_empty_warrior /\ l.instructions = << >>
      THEN << >>
      ELSE << [code |-> l.instructions,
               start |-> IF l.start = << >> THEN 0 ELSE l.start[1],
               pin |-> l.pin] >> :
        l \in { parse_loop(warrior, options.omit_modifiers, << >>, << >>,
                           << >>) } } :
    TRUE

\* ---- parsing every short loadfile ----

\* the longest loadfile text, in items
MaxInput == 5

DatItem ==
  Item("instr", << 0, 0 >>, << "Dat", << "F" >>, "Immediate", "Immediate" >>)

ParseItems ==
  { DatItem,
    Item("ORG", << 1 >>, << >>), Item("ORG", << 2 >>, << >>),
    Item("PIN", << 1 >>, << >>), Item("PIN", << 2 >>, << >>),
    Item("END", << >>, << >>), Item("END", << 3 >>, << >>),
    Item(";", << >>, << >>), Item("x", << >>, << >>), Eol }

ParseInputs == UNION { [1..n -> ParseItems] : n \in 0..MaxInput }

ParseOptionInputs == { ParseOptions(FALSE, d, m) : d \in BOOLEAN, m \in BOOLEAN }

\* no emulator; ret.val holds the text that is going to be parsed
ParseInit ==
  /\ core = << >>
  /\ pq = << >>
  /\ pspace = PSpace_new
  /\ run = RunIdle
  /\ \E warrior \in ParseInputs : ret = [err |-> "", val |-> << warrior >>]
  /\ setup = 0

\* a call of parse: ret.val becomes the text, the options and the result
Parse(options) ==
  /\ setup = 0
  /\ Len(ret.val) = 1
  /\ \E r \in { parse(ret.val[1], options) } :
       ret' = [err |-> IF r = << >> THEN "ParseError" ELSE "",
               val |-> << ret.val[1], options, r >>]
  /\ setup' = 1
  /\ UNCHANGED << core, pq, pspace, run >>

ParseNext == \E options \in ParseOptionInputs : Parse(options)

ParseSpec == ParseInit /\ [][ParseNext]_vars

\* item i is the first item of its line
LineStart(warrior, i) == i = 1 \/ warrior[i - 1].kind = "\n"

\* the positions of the lines made of keyword kind
LinesOf(warrior, kind) ==
  { i \in 1..Len(warrior) : warrior[i].kind = kind /\ LineStart(warrior, i) }

Least(S) == CHOOSE i \in S : \A j \in S : i <= j

Greatest(S) == CHOOSE i \in S : \A j \in S : i >= j

\* the position of the first END line, 0 if there is none
FirstEnd(warrior) ==
  IF LinesOf(warrior, "END") = {} THEN 0 ELSE Least(LinesOf(warrior, "END"))

\* the positions before the first END line, or all of them
BeforeEnd(warrior) ==
  IF FirstEnd(warrior) = 0 THEN 1..Len(warrior)
  ELSE 1..(FirstEnd(warrior) - 1)

\* the number of the last line of keyword kind before the first END, as an
\* option
LastBeforeEnd(warrior, kind) ==
  IF LinesOf(warrior, kind) \cap BeforeEnd(warrior) = {} THEN << >>
  ELSE warrior[Greatest(LinesOf(warrior, kind) \cap BeforeEnd(warrior))].num

\* C28: a loadfile that parses has as start the number of its first END line
\* if that line has one, otherwise the number of the last ORG line before the
\* first END line (before the end of the text if there is no END), otherwise
\* 0, whatever follows the first END; its pin is the number of the last PIN
\* line before the first END line, None if there is none.
C28_StartSelection ==
  (Len(ret.val) = 3 /\ ret.val[3] # << >>) =>
    \E warrior \in { ret.val[1] }, parsed \in { ret.val[3][1] } :
      /\ parsed.start =
           IF FirstEnd(warrior) # 0 /\ warrior[FirstEnd(warrior)].num # << >>
           THEN warrior[FirstEnd(warrior)].num[1]
           ELSE IF LastBeforeEnd(warrior, "ORG") # << >>
           THEN LastBeforeEnd(warrior, "ORG")[1]
           ELSE 0
      /\ parsed.pin = LastBeforeEnd(warrior, "PIN")

\* ORG 1, an END without a number, then ORG 2: the start is 1
C28_Witness ==
  /\ Len(ret.val) = 3
  /\ ret.val[1] = << Item("ORG", << 1 >>, << >>), Eol,
                     Item("END", << >>, << >>), Eol,
                     Item("ORG", << 2 >>, << >>) >>
  /\ ret.val[2] = DEFAULT_OPTIONS
  /\ ret.val[3] = << [code |-> << >>, start |-> 1, pin |-> << >>] >>

\* C29: parsing stops at the first END line. With the default options the
\* result is that of the text cut after that line's END, an error only if
\* that is one; with must_consume_all anything but line endings after the
\* END is an error, and line endings alone change nothing; with
\* disallow_empty_warrior a text without an instruction line before the first
\* END is an error, and without the option such a text that parses gives a
\* warrior with no instruction.
C29_StopsAtEnd ==
  Len(ret.val) = 3 =>
    \E warrior \in { ret.val[1] }, options \in { ret.val[2] },
       parsed \in { ret.val[3] } :
      /\ (options = DEFAULT_OPTIONS /\ FirstEnd(warrior) # 0)
         => parsed = parse(SubSeq(warrior, 1, FirstEnd(warrior)),
                           DEFAULT_OPTIONS)
      /\ ( /\ options.must_consume_all /\ FirstEnd(warrior) # 0
           /\ \E i \in (FirstEnd(warrior) + 1)..Len(warrior) :
                warrior[i].kind # "\n" )
         => parsed = << >>
      /\ ( /\ options.must_consume_all
           /\ \A i \in (FirstEnd(warrior) + 1)..Len(warrior) :
                FirstEnd(warrior) # 0 => warrior[i].kind = "\n" )
         => parsed = parse(warrior,
                           [options EXCEPT !.must_consume_all = FALSE])
      /\ LinesOf(warrior, "instr") \cap BeforeEnd(warrior) = {}
         => IF options.disallow_empty_warrior THEN parsed = << >>
            ELSE parsed # << >> => parsed[1].code = << >>

\* an instruction line, END 3 followed on its line by text that is no
\* Redcode, and a PIN line after it: with the default options the warrior
\* has the instruction, start 3 and no pin
C29_Witness ==
  /\ Len(ret.val) = 3
  /\ ret.val[1] = << DatItem, Eol, Item("END", << 3 >>, << >>),
                     Item("x", << >>, << >>), Item("PIN", << 1 >>, << >>) >>
  /\ ret.val[2] = DEFAULT_OPTIONS
  /\ ret.val[3] =
       << [code |-> << CompleteInstruction(
                         Instruction("Dat", "F", "Immediate", "Immediate"),
                         0, 0) >>,
           start |-> 3, pin |-> << >>] >>

\* ---- parsing every instruction, in the '88 and in the '94 style ----

ICWS_88_OPTIONS == ParseOptions(TRUE, FALSE, FALSE)

Range(f) == { f[i] : i \in DOMAIN f }

\* a loadfile of one line: an instruction without a modifier, or with one
Icws88Inputs ==
  { << Item("instr", << 1, 2 >>, << op, m, a, b >>) >> :
      op \in Range(Opcode),
      m \in { << >> } \cup { << x >> : x \in Range(Modifier) },
      a \in Range(AddrMode), b \in Range(AddrMode) }

Icws88Init ==
  /\ core = << >>
  /\ pq = << >>
  /\ pspace = PSpace_new
  /\ run = RunIdle
  /\ \E warrior \in Icws88Inputs : ret = [err |-> "", val |-> << warrior >>]
  /\ setup = 0

Icws88Next == \E options \in { ICWS_88_OPTIONS, DEFAULT_OPTIONS } : Parse(options)

Icws88Spec == Icws88Init /\ [][Icws88Next]_vars

\* C30: with omit_modifiers set, a line opcode, A operand, B operand without
\* a modifier parses to the instruction of that opcode and those modes and
\* fields whose modifier is: F for Dat and Nop; for Mov, Seq, Sne, Cmp AB if
\* the A mode is Immediate, else B if the B mode is Immediate, else I; for
\* Add, Sub, Mul, Div, Mod AB, else B, else F in the same way; for Slt, Ldp,
\* Stp AB if the A mode is Immediate, else B; B for Jmp, Jmz, Jmn, Djn, Spl;
\* and a line that has a modifier is an error.
C30_DefaultModifiers ==
  (Len(ret.val) = 3 /\ ret.val[2].omit_modifiers) =>
    \E text \in { ret.val[1][1].instr }, parsed \in { ret.val[3] } :
      \E op \in { text[1] }, a \in { text[3] }, b \in { text[4] } :
        IF text[2] # << >> THEN parsed = << >>
        ELSE /\ parsed # << >>
             /\ parsed[1].code =
                  << CompleteInstruction(
                       Instruction(op,
                         CASE op \in {"Dat", "Nop"} -> "F"
                           [] op \in {"Mov", "Seq", "Sne", "Cmp"} ->
                                IF a = "Immediate" THEN "AB"
                                ELSE IF b = "Immediate" THEN "B" ELSE "I"
                           [] op \in {"Add", "Sub", "Mul", "Div", "Mod"} ->
                                IF a = "Immediate" THEN "AB"
                                ELSE IF b = "Immediate" THEN "B" ELSE "F"
                           [] op \in {"Slt", "Ldp", "Stp"} ->
                                IF a = "Immediate" THEN "AB" ELSE "B"
                           [] op \in {"Jmp", "Jmz", "Jmn", "Djn", "Spl"} -> "B",
                         a, b),
                       1, 2) >>

\* MOV #1, #2 parsed in the '88 style is Mov.AB #1, #2; the inputs have every
\* one of the 19 x 8 x 8 instructions without a modifier
C30_Witness ==
  /\ Len(ret.val) = 3
  /\ ret.val[2] = ICWS_88_OPTIONS
  /\ ret.val[1] = << Item("instr", << 1, 2 >>,
                          << "Mov", << >>, "Immediate", "Immediate" >>) >>
  /\ ret.val[3] =
       << [code |-> << CompleteInstruction(
                         Instruction("Mov", "AB", "Immediate", "Immediate"),
                         1, 2) >>,
           start |-> 0, pin |-> << >>] >>
  /\ Cardinality({ w \in Icws88Inputs : w[1].instr[2] = << >> }) = 19 * 8 * 8

Extremes(size) == { 0, 1, size - 1 } \cap 0..(size - 1)

ArithmeticOpcodes == {"Add", "Sub", "Mul", "Div", "Mod"}

\* an arithmetic instruction at 0 whose A operand is the cell 2 mod size and
\* whose B operand is the cell 1 mod size
ArithCore(size, instr, f1, f2) ==
  [k \in 0..(size - 1) |->
     IF k = 0 THEN CompleteInstruction(instr, 2 % size, 1 % size)
     ELSE IF k = 1 THEN CompleteInstruction(DefaultInstruction, f1[1], f1[2])
     ELSE IF k = 2 THEN CompleteInstruction(DefaultInstruction, f2[1], f2[2])
     ELSE CompleteInstruction(DefaultInstruction, 0, 0)]

ArithInit ==
  /\ \E size \in 1..CoreAddr_MAX, op \in ArithmeticOpcodes,
        m \in { Modifier[i] : i \in 1..Len(Modifier) } :
       \E f1 \in Extremes(size) \X Extremes(size),
          f2 \in Extremes(size) \X Extremes(size) :
         core = ArithCore(size, Instruction(op, m, "Direct", "Direct"), f1, f2)
  /\ pq = [ProcessQueueSet_new EXCEPT ![0] = << 0 >>]
  /\ pspace = PSpace_new
  /\ run = RunIdle
  /\ ret = [err |-> "", val |-> << >>]
  /\ setup = 0

ArithNext == \E w \in WarriorIds : Step(w)

ArithSpec == ArithInit /\ [][ArithNext]_vars

\* C32: in a core of any size N from 1 to the largest, with fields below N,
\* a step of Add, Sub, Mul, Div or Mod returns no error; each destination
\* field of the B target the modifier selects holds, when the instruction is
\* Add, Sub or Mul, (B-value + A-value) mod N, (B-value - A-value) mod N or
\* (B-value * A-value) mod N, and when it is Div or Mod with a nonzero
\* A-value, the quotient rounded down or the remainder; the field lies in
\* 0..N-1; nothing else in the core changes; Add, Sub and Mul enqueue
\* pc + 1 mod N.
C32_Arithmetic ==
  [][\A w \in WarriorIds :
       ( /\ Step(w) /\ pq[w] # << >>
         /\ core[Head(pq[w])].instr.opcode \in ArithmeticOpcodes )
       => \E ev \in { evaluate(Head(pq[w]), core) },
             op \in { core[Head(pq[w])].instr.opcode },
             dests \in { DivDests(core[Head(pq[w])].instr.modifier) },
             N \in { len(core) } :
            /\ ev.err = "" /\ ret'.err = ""
            /\ \A d \in dests :
                 \E bv \in { FieldOf(ev.regs.b, d[1]) },
                    av \in { FieldOf(ev.regs.a, d[2]) },
                    out \in { FieldOf(core'[ev.regs.b.idx], d[1]) } :
                   /\ out \in 0..(N - 1)
                   /\ op = "Add" => out = (bv + av) % N
                   /\ op = "Sub" => out = (bv - av) % N
                   /\ op = "Mul" => out = (bv * av) % N
                   /\ (op = "Div" /\ av # 0) =>
                        /\ out * av <= bv
                        /\ bv < (out + 1) * av
                   /\ (op = "Mod" /\ av # 0) =>
                        /\ out < av
                        /\ \E q \in 0..bv : q * av + out = bv
            /\ \A f \in {"a", "b"} \ { d[1] : d \in dests } :
                 FieldOf(core'[ev.regs.b.idx], f) =
                   FieldOf(ev.core[ev.regs.b.idx], f)
            /\ core'[ev.regs.b.idx].instr = ev.core[ev.regs.b.idx].instr
            /\ \A k \in 0..(N - 1) \ { ev.regs.b.idx } : core'[k] = ev.core[k]
            /\ op \in {"Add", "Sub", "Mul"} =>
                 pq'[w] = Append(Tail(pq[w]), (Head(pq[w]) + 1) % N)]_vars

\* in the largest core a Mul.AB has multiplied the two largest field values
C32_Witness ==
  /\ len(core) = CoreAddr_MAX
  /\ ret = [err |-> "", val |-> << 0 >>]
  /\ core[0] = CompleteInstruction(Instruction("Mul", "AB", "Direct", "Direct"),
                                   2, 1)
  /\ core[2].a_field = CoreAddr_MAX - 1
  /\ core[1].b_field =
       ((CoreAddr_MAX - 1) * (CoreAddr_MAX - 1)) % CoreAddr_MAX
  /\ core[1].a_field = 0
  /\ pq[0] = << 1 >>

\* C33: a step of Dat returns without an error, takes the executed process
\* off the warrior's queue and enqueues nothing, so that the queue is its
\* tail, one shorter, and the warrior is not active any more if the process
\* was its only one; the core after the step is the core with the
\* pre-decrements and post-increments of the Dat's two operands applied and
\* nothing else; PSPACE and the other queues are unchanged.
C33_Dat ==
  [][\A w \in WarriorIds :
       ( /\ Step(w) /\ pq[w] # << >>
         /\ core[Head(pq[w])].instr.opcode = "Dat" )
       => /\ ret' = [err |-> "", val |-> << Head(pq[w]) >>]
          /\ pq' = [pq EXCEPT ![w] = Tail(pq[w])]
          /\ Len(pq'[w]) = Len(pq[w]) - 1
          /\ Len(pq[w]) = 1 =>
               \A i \in 1..Len(active_warrior_set(pq')) :
                 active_warrior_set(pq')[i] # w
          /\ core' = AfterB(core, Head(pq[w]))
          /\ core' = evaluate(Head(pq[w]), core).core
          /\ pspace' = pspace]_vars

\* a Dat.F {1, <2 has executed: the A-field of the next cell and the B-field
\* of the cell after it are one less than loaded, and the queue is empty
C33_Witness ==
  /\ ret = [err |-> "", val |-> << StepPc >>]
  /\ core[StepPc] =
       CompleteInstruction(Instruction("Dat", "F", "PredecA", "PredecB"), 1, 2)
  /\ core[(StepPc + 1) % CoreSize] =
       CompleteInstruction(DefaultInstruction, 0, 2)
  /\ core[(StepPc + 2) % CoreSize] =
       CompleteInstruction(DefaultInstruction, 2, 0)
  /\ pq[0] = << >>

\* ---- a store to PSPACE followed by a load ----

\* a Stp at 0, a Ldp at 1 and a Dat at 2, with every modifier on the two and
\* every choice of the six fields
StoreLoadCore(m0, m1, f0, f1, f2) ==
  [k \in 0..(CoreSize - 1) |->
     IF k = 0
     THEN CompleteInstruction(Instruction("Stp", m0, "Direct", "Direct"),
                              f0[1], f0[2])
     ELSE IF k = 1
     THEN CompleteInstruction(Instruction("Ldp", m1, "Direct", "Direct"),
                              f1[1], f1[2])
     ELSE CompleteInstruction(DefaultInstruction, f2[1], f2[2])]

StoreLoadInit ==
  /\ \E m0 \in { Modifier[i] : i \in 1..Len(Modifier) },
        m1 \in { Modifier[i] : i \in 1..Len(Modifier) } :
       \E f0 \in Fields \X Fields, f1 \in Fields \X Fields,
          f2 \in Fields \X Fields :
         core = StoreLoadCore(m0, m1, f0, f1, f2)
  /\ pq = [ProcessQueueSet_new EXCEPT ![0] = << 0 >>]
  /\ pspace = initialize_pspace(PSpace_new, << << 0, 0 >> >>).pspace
  /\ run = RunIdle
  /\ ret = [err |-> "", val |-> << >>]
  /\ setup = 0

StoreLoadNext == \E w \in WarriorIds : Step(w)

StoreLoadSpec == StoreLoadInit /\ [][StoreLoadNext]_vars

C35_SneNegatesSeq ==
  [][\A w \in WarriorIds :
       ( /\ Step(w) /\ pq[w] # << >>
         /\ core[Head(pq[w])].instr.opcode \in {"Sne", "Seq"} )
       => \E ev \in { evaluate(Head(pq[w]), core) },
             pc \in { Head(pq[w]) } :
            \E other \in
                 { step(w, [core EXCEPT ![pc].instr.opcode =
                                   IF @ = "Seq" THEN "Sne" ELSE "Seq"],
                        pq, pspace) },
               skip \in { Tail(pq[w]) \o << (pc + 2) % CoreSize >> },
               next \in { Tail(pq[w]) \o << (pc + 1) % CoreSize >> },
               a \in { ev.regs.a }, b \in { ev.regs.b },
               m \in { core[pc].instr.modifier } :
              /\ pq'[w] \in { skip, next }
              /\ other.pq[w] \in { skip, next }
              /\ pq'[w] = skip <=> other.pq[w] = next
              /\ pq'[w] = next <=> other.pq[w] = skip
              /\ other.err = ret'.err /\ other.val = ret'.val
              /\ other.pspace = pspace'
              /\ other.core = [core' EXCEPT ![pc].instr.opcode =
                                 IF @ = "Seq" THEN "Sne" ELSE "Seq"]
              /\ core[pc].instr.opcode = "Sne" =>
                   ( pq'[w] = skip <=>
                       CASE m = "A" -> a.a_field # b.a_field
                         [] m = "B" -> a.b_field # b.b_field
                         [] m = "AB" -> a.a_field # b.b_field
                         [] m = "BA" -> a.b_field # b.a_field
                         [] m = "F" -> \/ a.a_field # b.a_field
                                       \/ a.b_field # b.b_field
                         [] m = "X" -> \/ a.a_field # b.b_field
                                       \/ a.b_field # b.a_field
                         [] m = "I" -> \/ a.instr # b.instr
                                       \/ a.a_field # b.a_field
                                       \/ a.b_field # b.b_field )]_vars

\* a Sne.F whose operands agree in the a_field and differ in the b_field has
\* executed and skipped the next instruction
C35_Witness ==
  /\ ret = [err |-> "", val |-> << StepPc >>]
  /\ core[StepPc] =
       CompleteInstruction(Instruction("Sne", "F", "Direct", "Direct"), 1, 2)
  /\ core[(StepPc + 1) % CoreSize] =
       CompleteInstruction(DefaultInstruction, 0, 1)
  /\ core[(StepPc + 2) % CoreSize] =
       CompleteInstruction(DefaultInstruction, 0, 2)
  /\ pq[0] = << (StepPc + 2) % CoreSize >>

\* the first n entries of the sequence q, or all of q if it has fewer
Prefix(q, n) == SubSeq(q, 1, IF n < Len(q) THEN n ELSE Len(q))

QueueInit ==
  /\ \E i \in StepInstructions, f0 \in Fields \X Fields :
       core = LoadedCore(i, f0, << 1, 2 >>, << 2, 1 >>)
  /\ pq = [ProcessQueueSet_new EXCEPT ![0] = << StepPc >>]
  /\ pspace = initialize_pspace(PSpace_new, << << 0, 0 >> >>).pspace
  /\ run = RunIdle
  /\ ret = [err |-> "", val |-> << >>]
  /\ setup = 0

QueueNext ==
  \/ \E w \in 0..Warriors : Step(w)
  \/ \E w \in 0..Warriors, q \in QueueInputs : ReplaceProcessQueue(w, q)

QueueSpec == QueueInit /\ [][QueueNext]_vars

\* C37: in every reachable state every entry of every queue is an address of
\* the core, below the core size, whether replace_process_queue stored it
\* or a handler enqueued it as pc + 1, pc + 2 or a jump target; hence the
\* evaluation of the operands at the head of a queue never fails for a
\* program counter beyond the core: it succeeds whenever the fields of the
\* core are in range.
C37_EntriesInCore ==
  \A w \in WarriorIds :
    /\ \A i \in 1..Len(pq[w]) : pq[w][i] < len(core)
    /\ (pq[w] # << >> /\ FieldsInRange)
         => evaluate(Head(pq[w]), core).err = ""

\* a Seq at the last address has skipped, by pc + 2, to address 1; the queue
\* of warrior 1 was replaced by [0, 1], and the queue [CoreSize] was then
\* refused
C37_Witness ==
  /\ setup = MaxSetup
  /\ core[StepPc].instr.opcode = "Seq"
  /\ pq[0] = << (StepPc + 2) % CoreSize >>
  /\ pq[1] = << 0, 1 >>
  /\ ret = [err |-> "InvalidParam", val |-> << >>]

\* the opcodes whose handlers only read the core
ReadOnlyOpcodes ==
  { "Dat", "Jmp", "Jmz", "Jmn", "Spl", "Slt", "Cmp", "Seq", "Sne", "Nop",
    "Stp" }

FaultCells ==
  FrameCells \cup
  { CompleteInstruction(Instruction("Stp", "AB", "Immediate", "Immediate"),
                        1, PspaceSize),
    CompleteInstruction(Instruction("Ldp", "AB", "Immediate", "Immediate"),
                        PspaceSize, 0) }

\* as FrameInit, over FaultCells: the PSPACE maps leave both warriors, or
\* warrior 1 only, or neither without a PSPACE
FaultInit ==
  /\ \E c0 \in FaultCells, c1 \in FaultCells :
       core = [i \in 0..(CoreSize - 1) |->
                 IF i = 0 THEN c0
                 ELSE IF i = 1 THEN c1
                 ELSE CompleteInstruction(DefaultInstruction, 0, 0)]
  /\ pq = [w \in WarriorIds |-> << w >>]
  /\ \E m \in PspaceMapInputs :
       \E r \in { initialize_pspace(PSpace_new, m) } :
         r.err = "" /\ pspace = r.pspace
  /\ run = RunIdle
  /\ ret = [err |-> "", val |-> << >>]
  /\ setup = 0

FaultSpec == FaultInit /\ [][FrameNext]_vars

\* the PSPACE index the Ldp or Stp at pc addresses
PspaceIndex(pc) ==
  LET regs == evaluate(pc, core).regs
      m == regs.current.instr.modifier
  IN  IF regs.current.instr.opcode = "Ldp"
      THEN IF m \in {"A", "AB"} THEN regs.a.a_field ELSE regs.a.b_field
      ELSE IF m \in {"A", "BA"} THEN regs.b.a_field ELSE regs.b.b_field

\* C39: an error of Ldp or Stp is handed to the caller. When warrior w
\* executes a Ldp or a Stp and has no PSPACE assigned, or addresses an index
\* of PspaceSize or more, a call of step returns an error and no address;
\* inside run the call of run ends at once and returns that error, not a
\* count of cycles, and the warriors after w in the cycle do not execute:
\* their queues stay as they were.
C39_ErrorsPropagate ==
  [][ \A w \in WarriorIds :
        ( /\ Executes(w) /\ pq[w] # << >>
          /\ core[Head(pq[w])].instr.opcode \in {"Ldp", "Stp"}
          /\ \/ w \notin DOMAIN pspace.warrior_to_pin
             \/ PspaceIndex(Head(pq[w])) >= PspaceSize )
        => /\ ret' = [err |-> "InternalError", val |-> << >>]
           /\ run' = RunIdle
           /\ \A v \in WarriorIds \ { w } : pq'[v] = pq[v] ]_vars

\* a call has returned an InternalError: warrior 0, which has a PSPACE,
\* executed the Stp at address 0, whose index is PspaceSize, and lost that
\* process; warrior 1, next in the cycle, has not executed its Mov at
\* address 1, and the cell after it is still the default one
C39_Witness ==
  /\ ret = [err |-> "InternalError", val |-> << >>]
  /\ run = RunIdle
  /\ core[0] =
       CompleteInstruction(Instruction("Stp", "AB", "Immediate", "Immediate"),
                           1, PspaceSize)
  /\ core[1] = CompleteInstruction(Imp, 0, 1)
  /\ core[2] = CompleteInstruction(DefaultInstruction, 0, 0)
  /\ 0 \in DOMAIN pspace.warrior_to_pin
  /\ pq[0] = << >>
  /\ pq[1] = << 1 >>

\* ---- PSpace::add_pspace and PSpace::assign_pspace called one by one ----
PinInputs == { 0, 1 }

\* the only error return of add_pspace is an InternalError
AddPspace(pin) ==
  /\ Idle
  /\ \E r \in { add_pspace(pspace, pin) } :
         /\ pspace' = IF r = << >> THEN pspace ELSE r[1]
         /\ ret' = [err |-> IF r = << >> THEN "InternalError" ELSE "",
                    val |-> << >>]
  /\ UNCHANGED << core, pq, run, setup >>

\* the only error return of assign_pspace is an InternalError
AssignPspace(warrior_id, pin) ==
  /\ Idle
  /\ \E r \in { assign_pspace(pspace, warrior_id, pin) } :
         /\ pspace' = IF r = << >> THEN pspace ELSE r[1]
         /\ ret' = [err |-> IF r = << >> THEN "InternalError" ELSE "",
                    val |-> << >>]
  /\ UNCHANGED << core, pq, run, setup >>

\* a new emulator whose PSPACE is built by add_pspace and assign_pspace in
\* any order and written by write_pspace
StoreNext ==
  \/ \E pin \in PinInputs : AddPspace(pin)
  \/ \E w \in WarriorIds, pin \in PinInputs : AssignPspace(w, pin)
  \/ \E w \in WarriorIds, addr \in 0..(PspaceSize - 1),
         value \in 1..(CoreSize - 1) :
       WritePspace(w, addr, value)

StoreSpec == Init /\ [][StoreNext]_vars

\* C40: assign(wid, pin) fails and changes nothing unless the pin has an
\* array; otherwise it maps wid to pin, leaves the other mappings, the
\* arrays and the index-0 values of the other warriors as they were, and
\* sets the index-0 value of wid to 0 only if wid has none yet: the index-0
\* value of a warrior that is assigned again stays as it was. After any
\* sequence of add_pspace and assign every warrior that has a pin also has
\* an index-0 value, and its pin has an array.
C40_Assign ==
  /\ [](\A w \in DOMAIN pspace.warrior_to_pin :
          /\ w \in DOMAIN pspace.zero_index_values
          /\ pspace.warrior_to_pin[w] \in DOMAIN pspace.pin_to_pspace)
  /\ [][\A w \in WarriorIds, pin \in PinInputs :
          AssignPspace(w, pin) =>
            IF pin \notin DOMAIN pspace.pin_to_pspace
            THEN ret'.err # "" /\ pspace' = pspace
            ELSE /\ ret' = [err |-> "", val |-> << >>]
                 /\ pspace'.pin_to_pspace = pspace.pin_to_pspace
                 /\ DOMAIN pspace'.warrior_to_pin =
                      DOMAIN pspace.warrior_to_pin \cup { w }
                 /\ pspace'.warrior_to_pin[w] = pin
                 /\ \A v \in DOMAIN pspace.warrior_to_pin \ { w } :
                      /\ pspace'.warrior_to_pin[v] = pspace.warrior_to_pin[v]
                      /\ pspace'.zero_index_values[v] =
                           pspace.zero_index_values[v]
                 /\ pspace'.zero_index_values[w] =
                      IF w \in DOMAIN pspace.zero_index_values
                      THEN pspace.zero_index_values[w]
                      ELSE 0]_vars

\* warrior 0 is assigned to pin 1 and reads 0 at index 0, after two calls
\* of write_pspace: while it was assigned to pin 0 it wrote 2 to index 1 of
\* that pin's array and 1 to its own index 0
C40_Witness ==
  /\ ret = [err |-> "", val |-> << >>]
  /\ setup = MaxSetup
  /\ DOMAIN pspace.pin_to_pspace = { 0, 1 }
  /\ DOMAIN pspace.warrior_to_pin = { 0 }
  /\ pspace.warrior_to_pin[0] = 1
  /\ pspace.zero_index_values[0] = 0
  /\ pspace.pin_to_pspace[0][1] = 2
  /\ pspace.pin_to_pspace[1][1] = 0

====
